---- MODULE Spec2Model ----
(***************************************************************************)
(* A model of the backtest engine of algo-trading: BacktestEngine.run      *)
(* drives a backtrader Cerebro over a DataFrame of bars with one of four   *)
(* strategies (MA crossover, RSI, Bollinger Bands, Momentum), each a       *)
(* subclass of BaseStrategy.                                               *)
(*                                                                         *)
(* Numbers.  A price is kept as a whole number of tenths of a rupee        *)
(* (1/PriceDen).  Commission is a rate in units of 1/CommDen, and every    *)
(* amount of money (cash, portfolio value, order commission) is kept in    *)
(* units of 1/(CommDen * PriceDen) rupee, so that price * size *           *)
(* commission is exact.  The program computes in doubles.  A whole number  *)
(* of rupees is a double, and so are the sums and squares of a few of      *)
(* them: on such closes an indicator comparison is the comparison of the   *)
(* cross-multiplied integers.  0.1 and 0.2 are not doubles, and the        *)
(* average of a window of equal closes can differ from the close: see      *)
(* SMAExcess and StdDevIsZero.                                             *)
(*                                                                         *)
(* Bars are numbered 1..N.  Bar k of the model is index k-1 of the         *)
(* DataFrame.                                                              *)
(***************************************************************************)
EXTENDS Integers, Sequences, FiniteSets, TLC

(***************************************************************************)
(* Bounds of the model and program constants.                              *)
(***************************************************************************)
\* The longest freely chosen bar sequence.
MaxTail == 5

\* The longest bar sequence played to a strategy whose next() is arbitrary.
MaxAnyBars == 4

\* The longest freely chosen tail after the constant warm-up.
MaxWarmTail == 3

\* run() is called at most this many times on one engine.
MaxCalls == 2
MaxTwoBars == 3
MaxRepeatTail == 4
MaxRepeatWarmTail == 2
MaxPoints == 3
MaxTrades == 2
EquityDen == 2
MaxRise == 5
MaxRisePrice == 6
MaxMomentumTail == 3
MaxNotified == 3
MaxPending == 2

\* The longest bar sequence quoted in tenths of a rupee.
MaxDecimalBars == 4
DAYS_PER_YEAR == 252

\* Commission is kept in units of 1/CommDen.
CommDen == 100

\* Prices are kept in units of 1/PriceDen rupee: the Open and Close columns
\* of the frame are floats, here with at most one decimal.
PriceDen == 10

\* momentum_strategy.py:39: the trend filter is a 20-bar SMA.
SMA_PERIOD == 20

\* base_strategy.py:91,96: buy()/sell() without a size use the default sizer,
\* a fixed stake of one unit.
Stake == 1
POSITION_SIZE_PCT == 95

\* Closing prices of the bars, in steps of the frame's quote: a frame is
\* quoted in whole rupees (closes 1.0 and 2.0) or in tenths of a rupee
\* (closes 0.1 and 0.2).
Prices == 1..2

\* Open[k] = Close[k-1] + gap: the overnight gap of a run's bars, in steps
\* of the frame's quote.
Gaps == {0, 1}

\* A constant warm-up of this many bars, so that bar SMA_PERIOD is the first
\* freely chosen bar.
WarmLen == SMA_PERIOD - 1

\* The engines: <<initial_capital in rupees, commission in units of
\* 1/CommDen>> (1 is a commission of 0.01).
Engines == {<<100, 1>>, <<100, 0>>, <<100, 0 - 1>>, <<2, 0>>, <<2, 1>>,
            <<0 - 100, 1>>, <<0, 1>>}

Strategies == {"MAcrossoverStrategy", "RSIStrategy", "BollingerBandsStrategy",
               "MomentumStrategy"}

(***************************************************************************)
(* Helpers.                                                                *)
(***************************************************************************)
Max(a, b) == IF a >= b THEN a ELSE b

Abs(x) == IF x < 0 THEN 0 - x ELSE x

RECURSIVE Pow(_, _)
Pow(b, e) == IF e = 0 THEN 1 ELSE b * Pow(b, e - 1)

\* The closes of a bar sequence.
Closes(bars) == [k \in 1..Len(bars) |-> bars[k].Close]

\* SimpleMovingAverage on a window of n closes that are all v tenths,
\* math.fsum(window) / n, against the close: 1 when the average is above the
\* close, 0 when it is the close, for the windows the strategies here have
\* (1, 2, 3 and 20 bars) and closes of 0.1, 0.2 or a whole number of rupees.
\* A whole number is summed and divided back without error, and so are once,
\* twice and twenty times the double nearest 0.1.  Three times the double nearest
\* 0.1 (or 0.2, which is twice it) needs two more bits than a double has and
\* lies half-way between two doubles; the sum is rounded to the even one,
\* above (0.30000000000000004), and a third of it is the double next above
\* the close (0.10000000000000002).
SMAExcess(v, n) == IF v % PriceDen = 0 \/ n # 3 THEN 0 ELSE 1

\* StandardDeviation on such a window, pow(abs(meansq - sqmean), 0.5) for
\* meansq the average of the squares and sqmean the square of the average:
\* whether it is 0.0.  With the average above the close the two differ in
\* the last bits, and the root of that difference is about 1e-9.
StdDevIsZero(v, n) == v % PriceDen = 0 \/ n # 3

\* Sum of the n closes ending at bar k.
RECURSIVE SumWin(_, _, _)
SumWin(c, k, n) == IF n = 0 THEN 0 ELSE c[k] + SumWin(c, k - 1, n - 1)

\* Sum of the squares of the n closes ending at bar k.
RECURSIVE SumSqWin(_, _, _)
SumSqWin(c, k, n) == IF n = 0 THEN 0 ELSE c[k] * c[k] + SumSqWin(c, k - 1, n - 1)

(***************************************************************************)
(* Strategy parameters (the strategy_params of run, over the class         *)
(* defaults).                                                              *)
(***************************************************************************)
ParamsOf(s) ==
  CASE s = "MAcrossoverStrategy" ->
         {[fast_ma |-> f, slow_ma |-> sl] : f \in 1..2, sl \in 2..3}
    [] s = "RSIStrategy" ->
         {[rsi_period |-> p, rsi_lower |-> 30, rsi_upper |-> 60] : p \in 1..2}
    [] s = "BollingerBandsStrategy" ->
         {[bb_period |-> p, bb_std |-> 2] : p \in 2..3}
    [] s = "MomentumStrategy" ->
         {[roc_period |-> r, roc_threshold_num |-> 1, roc_threshold_den |-> 2] :
            r \in 1..2}

(***************************************************************************)
(* Indicators (backtrader), as the strategies read them.                   *)
(***************************************************************************)
\* fast_ma[k] - slow_ma[k] by its sign (both SMAs are defined): the exact
\* difference scaled by fast * slow and, where that is 0 (the closes of both
\* windows are the same), the difference the rounding of the averages
\* leaves, in units of the last bit.
MADiff(c, k, p) ==
  LET exact == SumWin(c, k, p.fast_ma) * p.slow_ma
                 - SumWin(c, k, p.slow_ma) * p.fast_ma
  IN  IF exact # 0 THEN exact
      ELSE SMAExcess(c[k], p.fast_ma) - SMAExcess(c[k], p.slow_ma)

\* CrossOver's NonZeroDifference: the last non-zero difference, seeded at the
\* first bar where both averages exist.
RECURSIVE Nzd(_, _, _)
Nzd(c, k, p) ==
  IF k = Max(p.fast_ma, p.slow_ma) THEN MADiff(c, k, p)
  ELSE IF MADiff(c, k, p) # 0 THEN MADiff(c, k, p) ELSE Nzd(c, k - 1, p)

\* The side the fast average is on at bar k, whatever it was on before.
CrossOver_side(c, k, p) ==
  (IF MADiff(c, k, p) > 0 THEN 1 ELSE 0) - (IF MADiff(c, k, p) < 0 THEN 1 ELSE 0)

\* bt.indicators.CrossOver(fast_ma, slow_ma) at bar k: 1, -1 or 0.
CrossOver(c, k, p) ==
  LET up   == Nzd(c, k - 1, p) < 0 /\ MADiff(c, k, p) > 0
      down == Nzd(c, k - 1, p) > 0 /\ MADiff(c, k, p) < 0
  IN  (IF up THEN 1 ELSE 0) - (IF down THEN 1 ELSE 0)

\* UpDay / DownDay of bar k >= 2.
UpDay(c, k) == Max(c[k] - c[k - 1], 0)

DownDay(c, k) == Max(c[k - 1] - c[k], 0)

RECURSIVE SumUp(_, _, _)
SumUp(c, k, n) == IF n = 0 THEN 0 ELSE UpDay(c, k) + SumUp(c, k - 1, n - 1)

RECURSIVE SumDown(_, _, _)
SumDown(c, k, n) == IF n = 0 THEN 0 ELSE DownDay(c, k) + SumDown(c, k - 1, n - 1)

\* The smoothed (Wilder) average of UpDay with period n at bar k >= n+1,
\* scaled by n^(k-n): seeded with the plain average of the first n values,
\* then av = av_prev * (n-1)/n + x/n.
RECURSIVE MaUp(_, _, _)
MaUp(c, k, n) ==
  IF k = n + 1 THEN SumUp(c, k, n)
  ELSE MaUp(c, k - 1, n) * (n - 1) + UpDay(c, k) * Pow(n, k - n - 1)

RECURSIVE MaDown(_, _, _)
MaDown(c, k, n) ==
  IF k = n + 1 THEN SumDown(c, k, n)
  ELSE MaDown(c, k - 1, n) * (n - 1) + DownDay(c, k) * Pow(n, k - n - 1)

\* rs = maup / madown is a float division: it raises ZeroDivisionError when
\* the smoothed down average is 0 at some bar.
RSIZeroDivision(c, n) == \E k \in (n + 1)..Len(c) : MaDown(c, k, n) = 0

\* rsi[k] < x and rsi[k] > x, for rsi = 100 - 100 / (1 + maup / madown)
\* = 100 * maup / (maup + madown), madown > 0.
RSIBelow(c, k, n, x) == 100 * MaUp(c, k, n) < x * (MaUp(c, k, n) + MaDown(c, k, n))

RSIAbove(c, k, n, x) == 100 * MaUp(c, k, n) > x * (MaUp(c, k, n) + MaDown(c, k, n))

\* n*n times the population variance of the n closes ending at bar k.
VarWin(c, k, n) == Abs(n * SumSqWin(c, k, n) - SumWin(c, k, n) * SumWin(c, k, n))

\* close[k] <= bb.bot[k], bot = mid - devfactor * stddev.  On a window of
\* equal closes the exact band is the close itself, and the test is decided
\* by the rounding: it holds when the deviation is 0.0 and the average is
\* not below the close.
AtOrBelowBot(c, k, p) ==
  LET n == p.bb_period
      d == SumWin(c, k, n) - n * c[k]
  IN  IF VarWin(c, k, n) = 0
        THEN StdDevIsZero(c[k], n) /\ SMAExcess(c[k], n) >= 0
        ELSE d >= 0 /\ p.bb_std * p.bb_std * VarWin(c, k, n) <= d * d

\* close[k] >= bb.top[k], top = mid + devfactor * stddev; on a window of
\* equal closes it holds when the deviation is 0.0 and the average is not
\* above the close.
AtOrAboveTop(c, k, p) ==
  LET n == p.bb_period
      d == n * c[k] - SumWin(c, k, n)
  IN  IF VarWin(c, k, n) = 0
        THEN StdDevIsZero(c[k], n) /\ SMAExcess(c[k], n) <= 0
        ELSE d >= 0 /\ p.bb_std * p.bb_std * VarWin(c, k, n) <= d * d

\* roc[k] > num/den and roc[k] < -num/den, for
\* roc = (close[k] - close[k-period]) / close[k-period] (prices are positive).
ROCAbove(c, k, p) ==
  p.roc_threshold_den * (c[k] - c[k - p.roc_period])
    > p.roc_threshold_num * c[k - p.roc_period]

ROCBelowNeg(c, k, p) ==
  p.roc_threshold_den * (c[k] - c[k - p.roc_period])
    < 0 - p.roc_threshold_num * c[k - p.roc_period]

\* close[k] > sma[k] and close[k] < sma[k] for the 20-bar SMA; where the
\* exact average is the close, the rounding of the average decides.
AboveSMA(c, k) ==
  \/ SMA_PERIOD * c[k] > SumWin(c, k, SMA_PERIOD)
  \/ /\ SMA_PERIOD * c[k] = SumWin(c, k, SMA_PERIOD)
     /\ SMAExcess(c[k], SMA_PERIOD) < 0

BelowSMA(c, k) ==
  \/ SMA_PERIOD * c[k] < SumWin(c, k, SMA_PERIOD)
  \/ /\ SMA_PERIOD * c[k] = SumWin(c, k, SMA_PERIOD)
     /\ SMAExcess(c[k], SMA_PERIOD) > 0

\* The number of bars a strategy needs before next() is first called.
MinPeriod(s, p) ==
  CASE s = "MAcrossoverStrategy" -> Max(p.fast_ma, p.slow_ma) + 1
    [] s = "RSIStrategy" -> p.rsi_period + 1
    [] s = "BollingerBandsStrategy" -> p.bb_period
    [] s = "MomentumStrategy" -> Max(p.roc_period + 1, SMA_PERIOD)
    [] s = "BaseStrategy" -> 1

(***************************************************************************)
(* The strategies.  A position is a record [size, price, comm, bar]; the   *)
(* Python test "self.position" is size # 0.                                *)
(***************************************************************************)
InPosition(position) == position.size # 0

\* The BUY condition of strategy class s at bar k (the "if" of next()).
BuyCondition(s, c, k, p, position) ==
  CASE s = "MAcrossoverStrategy" -> CrossOver(c, k, p) > 0
    [] s = "RSIStrategy" ->
         RSIBelow(c, k, p.rsi_period, p.rsi_lower) /\ ~InPosition(position)
    [] s = "BollingerBandsStrategy" ->
         AtOrBelowBot(c, k, p) /\ ~InPosition(position)
    [] s = "MomentumStrategy" ->
         ROCAbove(c, k, p) /\ AboveSMA(c, k) /\ ~InPosition(position)

\* The SELL condition of strategy class s at bar k (the "elif" of next()).
SellCondition(s, c, k, p, position) ==
  CASE s = "MAcrossoverStrategy" -> CrossOver(c, k, p) < 0
    [] s = "RSIStrategy" ->
         RSIAbove(c, k, p.rsi_period, p.rsi_upper) /\ InPosition(position)
    [] s = "BollingerBandsStrategy" ->
         AtOrAboveTop(c, k, p) /\ InPosition(position)
    [] s = "MomentumStrategy" ->
         (ROCBelowNeg(c, k, p) \/ BelowSMA(c, k)) /\ InPosition(position)

\* MAcrossoverStrategy.next: the signal calls made at bar k, in order
\* ("BUY" is a call of buy_signal, "SELL" one of sell_signal).
MAcrossoverStrategy_next(c, k, p, position) ==
  IF BuyCondition("MAcrossoverStrategy", c, k, p, position) THEN <<"BUY">>
  ELSE IF SellCondition("MAcrossoverStrategy", c, k, p, position) THEN <<"SELL">>
  ELSE <<>>

\* RSIStrategy.next: the signal calls made at bar k.
RSIStrategy_next(c, k, p, position) ==
  IF BuyCondition("RSIStrategy", c, k, p, position) THEN <<"BUY">>
  ELSE IF SellCondition("RSIStrategy", c, k, p, position) THEN <<"SELL">>
  ELSE <<>>

\* A next() with two independent tests, the second without the position test.
BollingerBandsStrategy_next_two_ifs(c, k, p, position) ==
  (IF AtOrBelowBot(c, k, p) /\ ~InPosition(position) THEN <<"BUY">> ELSE <<>>)
    \o (IF AtOrAboveTop(c, k, p) THEN <<"SELL">> ELSE <<>>)

\* BollingerBandsStrategy.next: the signal calls made at bar k.
BollingerBandsStrategy_next(c, k, p, position) ==
  IF BuyCondition("BollingerBandsStrategy", c, k, p, position) THEN <<"BUY">>
  ELSE IF SellCondition("BollingerBandsStrategy", c, k, p, position) THEN <<"SELL">>
  ELSE <<>>

\* MomentumStrategy.next: the signal calls made at bar k.
MomentumStrategy_next(c, k, p, position) ==
  IF BuyCondition("MomentumStrategy", c, k, p, position) THEN <<"BUY">>
  ELSE IF SellCondition("MomentumStrategy", c, k, p, position) THEN <<"SELL">>
  ELSE <<>>

\* next() of the strategy class s.
StrategyNext(s, c, k, p, position) ==
  CASE s = "MAcrossoverStrategy" -> MAcrossoverStrategy_next(c, k, p, position)
    [] s = "RSIStrategy" -> RSIStrategy_next(c, k, p, position)
    [] s = "BollingerBandsStrategy" -> BollingerBandsStrategy_next(c, k, p, position)
    [] s = "MomentumStrategy" -> MomentumStrategy_next(c, k, p, position)

\* A buy_signal that orders whether or not a position is open.
buy_signal_unguarded(position) == TRUE

\* BaseStrategy.buy_signal: whether a buy order is created.
buy_signal(position) == ~InPosition(position)

\* A sell_signal that orders whether or not a position is open.
sell_signal_unguarded(position) == TRUE

\* BaseStrategy.sell_signal: whether a sell order is created.
sell_signal(position) == InPosition(position)

\* The market order one signal call creates at bar k, if any: buy() and
\* sell() without arguments order the default stake, created at the bar's
\* close.
OrderOf(call, position, k, close) ==
  IF call = "BUY" /\ buy_signal(position)
    THEN <<[isbuy |-> TRUE, size |-> Stake, created |-> close, bar |-> k]>>
  ELSE IF call = "SELL" /\ sell_signal(position)
    THEN <<[isbuy |-> FALSE, size |-> 0 - Stake, created |-> close, bar |-> k]>>
  ELSE <<>>

\* The orders the signal calls of one next() create, in order.  The position
\* does not change during next(): orders are executed by the broker later.
RECURSIVE OrdersOf(_, _, _, _)
OrdersOf(calls, position, k, close) ==
  IF calls = <<>> THEN <<>>
  ELSE OrderOf(Head(calls), position, k, close)
         \o OrdersOf(Tail(calls), position, k, close)

\* BaseStrategy.__init__.  None is the empty sequence, a value v is <<v>>.
BaseStrategy_init ==
  [order |-> <<>>, buy_price |-> <<>>, buy_comm |-> <<>>, trade_count |-> 0,
   winning_trades |-> 0, losing_trades |-> 0, total_profit |-> 0]

\* A notify_order that keeps the order handle when the broker refuses the
\* order on margin.
notify_order_keeps_on_margin(st, o) ==
  IF o.status \in {"Submitted", "Accepted", "Margin"} THEN st
  ELSE IF o.status = "Completed" THEN
    LET profit == IF st.buy_price # <<>> /\ st.buy_price[1] # 0
                    THEN o.price - st.buy_price[1] ELSE 0
        s1 == IF o.isbuy
                THEN [st EXCEPT !.buy_price = <<o.price>>, !.buy_comm = <<o.comm>>]
                ELSE [st EXCEPT
                        !.winning_trades = IF profit > 0 THEN @ + 1 ELSE @,
                        !.losing_trades = IF profit > 0 THEN @ ELSE @ + 1,
                        !.total_profit = @ + profit]
    IN  [s1 EXCEPT !.trade_count = @ + 1, !.order = <<>>]
  ELSE [st EXCEPT !.order = <<>>]

\* A notify_order that counts a completed SELL without profit as winning.
notify_order_zero_profit_wins(st, o) ==
  IF o.status \in {"Submitted", "Accepted"} THEN st
  ELSE IF o.status = "Completed" THEN
    LET profit == IF st.buy_price # <<>> /\ st.buy_price[1] # 0
                    THEN o.price - st.buy_price[1] ELSE 0
        s1 == IF o.isbuy
                THEN [st EXCEPT !.buy_price = <<o.price>>, !.buy_comm = <<o.comm>>]
                ELSE [st EXCEPT
                        !.winning_trades = IF profit >= 0 THEN @ + 1 ELSE @,
                        !.losing_trades = IF profit >= 0 THEN @ ELSE @ + 1,
                        !.total_profit = @ + profit]
    IN  [s1 EXCEPT !.trade_count = @ + 1, !.order = <<>>]
  ELSE [st EXCEPT !.order = <<>>]

\* BaseStrategy.notify_order for one notification o = [status, isbuy, price,
\* comm] (price and comm are those of order.executed).
notify_order(st, o) ==
  IF o.status \in {"Submitted", "Accepted"} THEN st
  ELSE IF o.status = "Completed" THEN
    LET profit == IF st.buy_price # <<>> /\ st.buy_price[1] # 0
                    THEN o.price - st.buy_price[1] ELSE 0
        s1 == IF o.isbuy
                THEN [st EXCEPT !.buy_price = <<o.price>>, !.buy_comm = <<o.comm>>]
                ELSE [st EXCEPT
                        !.winning_trades = IF profit > 0 THEN @ + 1 ELSE @,
                        !.losing_trades = IF profit > 0 THEN @ ELSE @ + 1,
                        !.total_profit = @ + profit]
    IN  [s1 EXCEPT !.trade_count = @ + 1, !.order = <<>>]
  ELSE IF o.status \in {"Canceled", "Margin", "Rejected"}
    THEN [st EXCEPT !.order = <<>>]
  ELSE st

\* notify_order over a sequence of notifications, in order.
RECURSIVE NotifyAll(_, _)
NotifyAll(st, ns) ==
  IF ns = <<>> THEN st ELSE NotifyAll(notify_order(st, Head(ns)), Tail(ns))

(***************************************************************************)
(* The broker (backtrader's BackBroker with its defaults: market orders    *)
(* are matched at the open of the bar after the one that created them, a   *)
(* percentage commission on the traded value, no leverage).                *)
(***************************************************************************)
Min(a, b) == IF a <= b THEN a ELSE b

Flat == [size |-> 0, price |-> 0, comm |-> 0, bar |-> 0]

\* The part of an order of size d that closes a position of size s, and the
\* part that opens (Position.update).
ClosedSize(s, d) ==
  IF s > 0 /\ d < 0 THEN 0 - Min(s, 0 - d)
  ELSE IF s < 0 /\ d > 0 THEN Min(0 - s, d)
  ELSE 0

OpenedSize(s, d) == d - ClosedSize(s, d)

\* setcommission(commission=rate): the commission of trading size at price,
\* in units of 1/(CommDen * PriceDen) rupee.
getcommission(size, price, rate) == Abs(size) * price * rate

\* The cash after the closing part of an order is matched at price.
CashAfterClose(cash, s, d, price, rate) ==
  cash - ClosedSize(s, d) * price * CommDen
       - getcommission(ClosedSize(s, d), price, rate)

\* The cash after the opening part too, were it matched.
CashAfterOpen(cash, s, d, price, rate) ==
  CashAfterClose(cash, s, d, price, rate)
    - OpenedSize(s, d) * price * CommDen
    - getcommission(OpenedSize(s, d), price, rate)

\* The broker's treatment at bar k of the order o created at bar k-1:
\* check_submitted tries it at its creation price and rejects it (Margin) if
\* the cash would go negative; an accepted market order is matched at the
\* bar's open, the opening part only if the cash covers it.
BrokerExecute(cash, position, o, open, rate, k) ==
  LET s      == position.size
      d      == o.size
      closed == ClosedSize(s, d)
      popen  == OpenedSize(s, d)
      pseudo == CashAfterOpen(cash, s, d, o.created, rate)
      cash1  == CashAfterClose(cash, s, d, open, rate)
      cash2  == CashAfterOpen(cash, s, d, open, rate)
      opened == IF popen # 0 /\ cash2 < 0 THEN 0 ELSE popen
      comm   == getcommission(closed, open, rate) + getcommission(opened, open, rate)
      size2  == s + closed + opened
      pnl    == (0 - closed) * (open - position.price)
      trade  == [entry_bar |-> position.bar, exit_bar |-> k,
                 entry_price |-> position.price, exit_price |-> open,
                 size |-> 0 - closed,
                 commission |-> position.comm + getcommission(closed, open, rate),
                 pnl |-> pnl,
                 pnlcomm |-> pnl * CommDen - position.comm
                               - getcommission(closed, open, rate)]
      exec   == [bar |-> k, price |-> open, isbuy |-> o.isbuy,
                 size |-> closed + opened, comm |-> comm,
                 created_bar |-> o.bar, created_price |-> o.created,
                 cash_before |-> cash]
  IN
  IF pseudo < 0 THEN
    [cash |-> cash, position |-> position, fills |-> <<>>, closed_trades |-> <<>>,
     opened_trade |-> FALSE,
     notifications |-> <<[status |-> "Submitted", isbuy |-> o.isbuy, price |-> 0, comm |-> 0],
                         [status |-> "Margin", isbuy |-> o.isbuy, price |-> 0, comm |-> 0]>>]
  ELSE
    [cash |-> IF opened # 0 THEN cash2 ELSE cash1,
     position |->
       IF size2 = 0 THEN Flat
       ELSE IF opened # 0
         THEN [size |-> size2, price |-> open,
               comm |-> (IF closed # 0 \/ s = 0 THEN 0 ELSE position.comm)
                          + getcommission(opened, open, rate),
               bar |-> IF closed # 0 \/ s = 0 THEN k ELSE position.bar]
       ELSE [position EXCEPT !.size = size2],
     fills |-> IF closed + opened # 0 THEN <<exec>> ELSE <<>>,
     closed_trades |-> IF closed # 0 /\ s + closed = 0 THEN <<trade>> ELSE <<>>,
     opened_trade |-> opened # 0 /\ s + closed = 0,
     notifications |->
       <<[status |-> "Submitted", isbuy |-> o.isbuy, price |-> 0, comm |-> 0],
         [status |-> "Accepted", isbuy |-> o.isbuy, price |-> 0, comm |-> 0],
         [status |-> IF popen # 0 /\ opened = 0 THEN "Margin" ELSE "Completed",
          isbuy |-> o.isbuy,
          price |-> IF closed + opened # 0 THEN open ELSE 0,
          comm |-> comm]>>]

\* The price a market order is matched at in the bar after the one that
\* created it: that bar's open.
ExecutionPrice(o, bar) == bar.Open

\* broker.getvalue(): cash plus the position at the bar's close.
getvalue(cash, position, close) == cash + position.size * close * CommDen

\* The TradeAnalyzer's counters after the trades one order opened and closed
\* (a closed trade counts as won when its pnl net of commission is >= 0).
TradeAnalyzer_notify(t, x) ==
  LET nclosed == Len(x.closed_trades)
      won     == IF nclosed = 1 /\ x.closed_trades[1].pnlcomm >= 0 THEN 1 ELSE 0
      nopened == IF x.opened_trade THEN 1 ELSE 0
  IN  [total |-> t.total + nopened,
       open |-> t.open + nopened - nclosed,
       closed |-> t.closed + nclosed,
       won |-> t.won + won,
       lost |-> t.lost + nclosed - won]

(***************************************************************************)
(* The inputs of run().                                                    *)
(***************************************************************************)
\* The close sequences of length at most n.
SeqsUpTo(n) == UNION {[1..m -> Prices] : m \in 0..n}

\* The constant warm-up at price w.
Warm(w) == [k \in 1..WarmLen |-> w]

CloseSeqs ==
  SeqsUpTo(MaxTail) \cup {Warm(w) \o t : w \in Prices, t \in SeqsUpTo(MaxWarmTail)}

\* The bars of a close sequence, in tenths of a rupee: each bar opens at
\* the previous close plus the gap.
Bars(c, gap) ==
  [k \in 1..Len(c) |->
     [Open |-> IF k = 1 THEN c[1] ELSE c[k - 1] + gap, Close |-> c[k]]]

\* The bars of a close sequence quoted in whole rupees.
RupeeBars(c, gap) == Bars([k \in 1..Len(c) |-> c[k] * PriceDen], gap * PriceDen)

\* A DataFrame: whether it has the Open, High, Low, Close and Volume columns,
\* and its rows.
MissingColumnFrame ==
  [columns_ok |-> FALSE, bars |-> RupeeBars(<<1, 1, 1>>, 0)]

EmptyFrame == [columns_ok |-> TRUE, bars |-> <<>>]

\* Frames quoted in tenths of a rupee.
DecimalFrames ==
  {[columns_ok |-> TRUE, bars |-> Bars(c, g)] :
     c \in SeqsUpTo(MaxDecimalBars), g \in Gaps}

DataFrames ==
  {[columns_ok |-> TRUE, bars |-> RupeeBars(c, g)] : c \in CloseSeqs, g \in Gaps}
    \cup DecimalFrames \cup {MissingColumnFrame}

\* The frames a later call on the same engine is explored with: those that
\* run() rejects at once.
RejectedFrames == {MissingColumnFrame, EmptyFrame}

(***************************************************************************)
(* Results.  A ratio is a record [num, den]; +infinity is [1, 0].          *)
(* A logarithm is kept by its argument: [ln_num, ln_den] is                *)
(* ln(ln_num / ln_den).                                                    *)
(***************************************************************************)
Rat(n, d) == [num |-> n, den |-> d]

\* a / b > c / d for b > 0 and d > 0, by whole parts and then by the
\* inverses of the remainders, so that no product is formed.
RECURSIVE QuotientGreater(_, _, _, _)
QuotientGreater(a, b, c, d) ==
  IF a \div b # c \div d THEN a \div b > c \div d
  ELSE IF a % b = 0 THEN FALSE
  ELSE IF c % d = 0 THEN TRUE
  ELSE QuotientGreater(d, c % d, b, a % b)

\* a > b for ratios with non-zero denominators.
RatGreater(a, b) ==
  QuotientGreater(IF a.den > 0 THEN a.num ELSE 0 - a.num, Abs(a.den),
                  IF b.den > 0 THEN b.num ELSE 0 - b.num, Abs(b.den))

\* The DrawDown analyzer before the first bar: no peak yet (-inf), max
\* drawdown 0.0, nothing raised.
DrawDown_start == [peak |-> <<>>, max |-> Rat(0, 1), error |-> "None"]

\* The DrawDown analyzer at a bar of portfolio value v: the peak is the
\* running maximum, the drawdown 100.0 * (peak - v) / peak, and max the
\* largest drawdown so far.  With a peak of 0 the division raises
\* ZeroDivisionError and the analyzer is left as it was.  (The TimeReturn
\* analyzer of SharpeRatio divides the value by the value the run started
\* with, and raises at the same bar: the peak is 0 only when that value is.)
DrawDown_next(dd, v) ==
  LET peak == IF dd.peak = <<>> THEN v ELSE Max(dd.peak[1], v)
  IN  IF peak = 0 THEN [dd EXCEPT !.error = "ZeroDivisionError"]
      ELSE [peak |-> <<peak>>,
            max |-> IF RatGreater(Rat(100 * (peak - v), peak), dd.max)
                      THEN Rat(100 * (peak - v), peak)
                      ELSE dd.max,
            error |-> "None"]

\* BacktestEngine._extract_results.  The bars of a run lie in one calendar
\* year, for which the SharpeRatio analyzer has a single yearly return and
\* reports None, which line 138 turns into 0.
_extract_results(strat_class, initial_capital, cash, position, trades, drawdown, bars) ==
  LET n           == Len(bars)
      final_value == getvalue(cash, position, bars[n].Close)
      closed_any  == trades.closed > 0
  IN  [symbol |-> "SYMBOL",
       initial_capital |-> initial_capital,
       final_value |-> final_value,
       total_profit |-> final_value - initial_capital * CommDen * PriceDen,
       total_return |-> [times |-> 100, ln_num |-> final_value,
                         ln_den |-> initial_capital * CommDen * PriceDen],
       annual_return |-> [times |-> 100, periods |-> n, ln_num |-> final_value,
                          ln_den |-> initial_capital * CommDen * PriceDen],
       sharpe_ratio |-> 0,
       max_drawdown |-> drawdown.max,
       total_trades |-> trades.total,
       winning_trades |-> trades.won,
       losing_trades |-> trades.lost,
       win_rate |-> IF trades.total > 0 THEN Rat(trades.won * 100, trades.total)
                    ELSE Rat(0, 1),
       profit_factor |-> IF closed_any /\ trades.lost > 0
                           THEN Rat(trades.won, trades.lost)
                         ELSE IF closed_any /\ trades.won > 0 THEN Rat(1, 0)
                         ELSE Rat(0, 1),
       backtest_start |-> n,
       backtest_end |-> IF n > 1 THEN n - 1 ELSE n,
       strategy |-> strat_class]

\* cli.backtest, the equity curve it plots: one point per row of the frame,
\* each capital * (1 + total_return / 100).  total_return / 100 is the
\* logarithm ln(ln_num / ln_den), so a point is kept as
\* [capital, ln_num, ln_den].
equity_values(capital, results, n) ==
  [t \in 1..n |-> [capital |-> capital, ln_num |-> results.total_return.ln_num,
                   ln_den |-> results.total_return.ln_den]]

\* Whether an equity point is the portfolio value v (in units of
\* 1/(CommDen * PriceDen) rupee).
\* The logarithm of a rational other than 1 is irrational, so the point is
\* rational only when ln_num = ln_den, and then it is the capital.
EquityPointIs(pt, v) ==
  pt.ln_num = pt.ln_den /\ pt.capital * CommDen * PriceDen = v

\* The windows of the indicators a strategy builds in _init_indicators.
IndicatorWindows(s, p) ==
  CASE s = "MAcrossoverStrategy" -> {p.fast_ma, p.slow_ma}
    [] s = "RSIStrategy" -> {p.rsi_period}
    [] s = "BollingerBandsStrategy" -> {p.bb_period}
    [] s = "MomentumStrategy" -> {p.roc_period, SMA_PERIOD}

(***************************************************************************)
(* The state: a BacktestEngine, the arguments of its current call of run,  *)
(* and the Cerebro run of that call.                                       *)
(***************************************************************************)
VARIABLES
  initial_capital,  \* BacktestEngine.initial_capital, in rupees
  commission,       \* BacktestEngine.commission, in units of 1/CommDen
  results,          \* BacktestEngine.results: <<>> is {}, else <<the dict>>
  calls,            \* the number of calls of run() so far
  results_before,   \* results as they were when the current call began
  strategy_class,   \* run's strategy_class
  strategy_params,  \* run's strategy_params
  data,             \* run's data
  pc,               \* "idle", "broker", "strategy", "extract", "done", "failed"
  error,            \* the exception a failed call raised
  i,                \* the number of bars the strategy has seen
  cash,             \* the broker's cash
  position,         \* the broker's position in the data
  pending,          \* the order submitted to the broker and not yet treated
  strat,            \* the BaseStrategy fields
  trades,           \* the TradeAnalyzer's counters
  trade_log,        \* the closed trades, in order
  values,           \* the portfolio value after each bar
  drawdown,         \* the DrawDown analyzer
  signals,          \* per bar: the signal calls of next() and what they found
  fills,            \* the executions, in order
  engine2,          \* a second BacktestEngine, with the fields above
  report,           \* a PerformanceAnalyzer and the metrics it computed
  notified          \* the notifications notify_order has handled, in order

vars == <<initial_capital, commission, results, calls, results_before,
          strategy_class, strategy_params, data, pc, error, i, cash, position,
          pending, strat, trades, trade_log, values, drawdown, signals, fills,
          engine2, report, notified>>

engine_vars == <<initial_capital, commission>>

call_vars == <<strategy_class, strategy_params, data, calls, results_before>>

other_vars == <<engine2, report>>

NoTrades == [total |-> 0, open |-> 0, closed |-> 0, won |-> 0, lost |-> 0]

\* A BacktestEngine after __init__, as a record of its fields.
NewEngine(capital, rate) ==
  [initial_capital |-> capital, commission |-> rate, results |-> <<>>, calls |-> 0,
   results_before |-> <<>>, strategy_class |-> "None", strategy_params |-> <<>>,
   data |-> EmptyFrame, pc |-> "idle", error |-> "None", i |-> 0, cash |-> 0,
   position |-> Flat, pending |-> <<>>, strat |-> BaseStrategy_init,
   trades |-> NoTrades, trade_log |-> <<>>, values |-> <<>>,
   drawdown |-> DrawDown_start, signals |-> <<>>, fills |-> <<>>]

\* One TradeAnalyzer for all engines: a run goes on from the counts of the
\* second engine.
_add_analyzers_shared == engine2.trades

\* Analyzers left on from the run before, with the counts they have.
_add_analyzers_kept == trades

\* The analyzers of a run are added new to the run's own Cerebro: the
\* TradeAnalyzer starts with no trade counted.
_add_analyzers == NoTrades

\* The first engine as a record of its fields.
Self ==
  [initial_capital |-> initial_capital, commission |-> commission,
   results |-> results, calls |-> calls, results_before |-> results_before,
   strategy_class |-> strategy_class, strategy_params |-> strategy_params,
   data |-> data, pc |-> pc, error |-> error, i |-> i, cash |-> cash,
   position |-> position, pending |-> pending, strat |-> strat, trades |-> trades,
   trade_log |-> trade_log, values |-> values, drawdown |-> drawdown,
   signals |-> signals, fills |-> fills]

\* BacktestEngine.__init__; no call of run() yet.  The second engine is built
\* alike and no PerformanceAnalyzer exists.
Init ==
  /\ \E e \in Engines : initial_capital = e[1] /\ commission = e[2]
  /\ results = <<>>
  /\ calls = 0
  /\ results_before = <<>>
  /\ strategy_class = "None"
  /\ strategy_params = <<>>
  /\ data = EmptyFrame
  /\ pc = "idle"
  /\ error = "None"
  /\ i = 0
  /\ cash = 0
  /\ position = Flat
  /\ pending = <<>>
  /\ strat = BaseStrategy_init
  /\ trades = NoTrades
  /\ trade_log = <<>>
  /\ values = <<>>
  /\ drawdown = DrawDown_start
  /\ signals = <<>>
  /\ fills = <<>>
  /\ engine2 = NewEngine(initial_capital, commission)
  /\ report = <<>>
  /\ notified = <<>>

\* A _create_data_feed without the test of the columns.
_create_data_feed_unchecked(d) == IF d.bars = <<>> THEN "IndexError" ELSE "None"

\* BacktestEngine._create_data_feed: the exception it raises, or "None".
_create_data_feed(d) ==
  IF ~d.columns_ok THEN "ValueError"
  ELSE IF d.bars = <<>> THEN "IndexError"
  ELSE "None"

\* cerebro.run() computes every indicator over the whole feed before the
\* first bar is played: the exception that raises, or "None".  An indicator
\* whose minimum period exceeds the number of bars indexes past its buffer;
\* the RSI divides by its smoothed down average.
PreloadError(s, p, bars) ==
  IF MinPeriod(s, p) > Len(bars) THEN "IndexError"
  ELSE IF s = "RSIStrategy" /\ RSIZeroDivision(Closes(bars), p.rsi_period)
    THEN "ZeroDivisionError"
  ELSE "None"

\* run(), up to the first bar: a new Cerebro with the engine's cash and
\* commission, the data feed, the strategy and its indicators.
RunError(s, p, d) ==
  IF _create_data_feed(d) # "None" THEN _create_data_feed(d)
  ELSE PreloadError(s, p, d.bars)

Run(s, p, d) ==
  /\ pc \in {"idle", "done", "failed"}
  /\ calls < MaxCalls
  /\ calls' = calls + 1
  /\ results_before' = results
  /\ strategy_class' = s
  /\ strategy_params' = p
  /\ data' = d
  /\ error' = RunError(s, p, d)
  /\ pc' = IF RunError(s, p, d) # "None" THEN "failed" ELSE "broker"
  /\ i' = 0
  /\ cash' = initial_capital * CommDen * PriceDen
  /\ position' = Flat
  /\ pending' = <<>>
  /\ strat' = BaseStrategy_init
  /\ trades' = _add_analyzers
  /\ trade_log' = <<>>
  /\ values' = <<>>
  /\ drawdown' = DrawDown_start
  /\ signals' = <<>>
  /\ fills' = <<>>
  /\ notified' = <<>>
  /\ UNCHANGED <<engine_vars, results, other_vars>>

\* One bar, first half: the broker treats the order of the previous bar at
\* this bar's open and the strategy is notified (notify_order).
BrokerNext ==
  /\ pc = "broker"
  /\ pc' = "strategy"
  /\ IF pending = <<>>
       THEN UNCHANGED <<cash, position, strat, trades, trade_log, fills, notified>>
       ELSE \E x \in {BrokerExecute(cash, position, pending[1],
                                     ExecutionPrice(pending[1], data.bars[i + 1]),
                                     commission, i + 1)} :
                /\ cash' = x.cash
                /\ position' = x.position
                /\ strat' = NotifyAll(strat, x.notifications)
                /\ notified' = notified \o x.notifications
                /\ trades' = TradeAnalyzer_notify(trades, x)
                /\ trade_log' = trade_log \o x.closed_trades
                /\ fills' = fills \o x.fills
  /\ pending' = <<>>
  /\ UNCHANGED <<engine_vars, results, call_vars, error, i, values, drawdown, signals,
                 other_vars>>

\* One bar, second half, for a next() that makes the signal calls sigs: the
\* orders are submitted, then the analyzers and after them the observers
\* take the portfolio value.  An analyzer that raises ends the run there,
\* inside cerebro.run(): the bar's value is not recorded and no result is
\* extracted.
StrategyStepWith(sigs) ==
  /\ pc = "strategy"
  /\ LET k      == i + 1
         c      == Closes(data.bars)
         ready  == k >= MinPeriod(strategy_class, strategy_params)
         orders == OrdersOf(sigs, position, k, c[k])
         value  == getvalue(cash, position, c[k])
         raised == DrawDown_next(drawdown, value).error
     IN  /\ pending' = orders
         /\ strat' = IF orders # <<>> THEN [strat EXCEPT !.order = <<k>>] ELSE strat
         /\ signals' = Append(signals, [ready |-> ready, calls |-> sigs,
                                        size |-> position.size,
                                        orders |-> Len(orders)])
         /\ drawdown' = DrawDown_next(drawdown, value)
         /\ error' = raised
         /\ values' = IF raised # "None" THEN values ELSE Append(values, value)
         /\ i' = k
         /\ pc' = IF raised # "None" THEN "failed"
                  ELSE IF k = Len(data.bars) THEN "extract" ELSE "broker"
  /\ UNCHANGED <<engine_vars, results, call_vars, cash, position, trades,
                 trade_log, fills, other_vars, notified>>

\* A prenext that buys during the warm-up.
prenext_buys == <<"BUY">>

\* bt.Strategy.prenext, which no strategy class overrides: the signal calls
\* of a bar before the minimum period.
prenext == <<>>

\* One bar, second half: next() if the indicators are ready (prenext does
\* nothing).
StrategyStep ==
  /\ pc = "strategy"
  /\ strategy_class \in Strategies
  /\ \E c \in {Closes(data.bars)} :
       \E sigs \in {IF i + 1 >= MinPeriod(strategy_class, strategy_params)
                      THEN StrategyNext(strategy_class, c, i + 1, strategy_params,
                                        position)
                      ELSE prenext} :
         StrategyStepWith(sigs)

\* The VWR analyzer when cerebro.run() stops the strategy after the last
\* bar: it takes the standard deviation, with Bessel's correction, of one
\* deviation per day of the run, math.fsum(...) / (n - 1), which divides by
\* zero for a run of one bar.
VWR_stop(bars) == IF Len(bars) = 1 THEN "ZeroDivisionError" ELSE "None"

\* The end of run(): cerebro.run() stops the analyzers and returns, then the
\* results are extracted, stored and returned.  When an analyzer raises,
\* nothing is stored.
ExtractResults ==
  /\ pc = "extract"
  /\ error' = VWR_stop(data.bars)
  /\ results' = IF VWR_stop(data.bars) # "None" THEN results
                ELSE <<_extract_results(strategy_class, initial_capital, cash,
                                        position, trades, drawdown, data.bars)>>
  /\ pc' = IF VWR_stop(data.bars) # "None" THEN "failed" ELSE "done"
  /\ UNCHANGED <<engine_vars, call_vars, i, cash, position, pending, strat,
                 trades, trade_log, values, drawdown, signals, fills, other_vars,
                 notified>>

\* run() up to the first bar, on an engine record e.
RunOf(e, s, p, d) ==
  [e EXCEPT !.calls = @ + 1, !.results_before = e.results, !.strategy_class = s,
            !.strategy_params = p, !.data = d, !.error = RunError(s, p, d),
            !.pc = IF RunError(s, p, d) # "None" THEN "failed" ELSE "broker",
            !.i = 0, !.cash = e.initial_capital * CommDen * PriceDen, !.position = Flat,
            !.pending = <<>>, !.strat = BaseStrategy_init, !.trades = _add_analyzers,
            !.trade_log = <<>>, !.values = <<>>, !.drawdown = DrawDown_start,
            !.signals = <<>>, !.fills = <<>>]

\* One bar, first half, on an engine record e.
BrokerNextOf(e) ==
  IF e.pending = <<>> THEN [e EXCEPT !.pc = "strategy"]
  ELSE LET x == BrokerExecute(e.cash, e.position, e.pending[1],
                              ExecutionPrice(e.pending[1], e.data.bars[e.i + 1]),
                              e.commission, e.i + 1)
       IN  [e EXCEPT !.pc = "strategy", !.cash = x.cash, !.position = x.position,
                     !.strat = NotifyAll(e.strat, x.notifications),
                     !.trades = TradeAnalyzer_notify(e.trades, x),
                     !.trade_log = @ \o x.closed_trades,
                     !.fills = @ \o x.fills, !.pending = <<>>]

\* One bar, second half, on an engine record e.
StrategyStepOf(e) ==
  LET k      == e.i + 1
      c      == Closes(e.data.bars)
      ready  == k >= MinPeriod(e.strategy_class, e.strategy_params)
      sigs   == IF ready
                  THEN StrategyNext(e.strategy_class, c, k, e.strategy_params,
                                    e.position)
                  ELSE prenext
      orders == OrdersOf(sigs, e.position, k, c[k])
      value  == getvalue(e.cash, e.position, c[k])
      raised == DrawDown_next(e.drawdown, value).error
  IN  [e EXCEPT !.pending = orders,
                !.strat = IF orders # <<>> THEN [@ EXCEPT !.order = <<k>>] ELSE @,
                !.signals = Append(@, [ready |-> ready, calls |-> sigs,
                                       size |-> e.position.size,
                                       orders |-> Len(orders)]),
                !.drawdown = DrawDown_next(@, value),
                !.error = raised,
                !.values = IF raised # "None" THEN @ ELSE Append(@, value),
                !.i = k,
                !.pc = IF raised # "None" THEN "failed"
                       ELSE IF k = Len(e.data.bars) THEN "extract" ELSE "broker"]

\* The end of run(), on an engine record e.
ExtractResultsOf(e) ==
  IF VWR_stop(e.data.bars) # "None"
    THEN [e EXCEPT !.error = VWR_stop(e.data.bars), !.pc = "failed"]
    ELSE [e EXCEPT !.results = <<_extract_results(e.strategy_class,
                                                  e.initial_capital, e.cash,
                                                  e.position, e.trades,
                                                  e.drawdown, e.data.bars)>>,
                   !.pc = "done"]

\* The next step of the run of an engine record e.
StepOf(e) ==
  CASE e.pc = "broker" -> BrokerNextOf(e)
    [] e.pc = "strategy" -> StrategyStepOf(e)
    [] e.pc = "extract" -> ExtractResultsOf(e)
    [] OTHER -> e

\* The engine record when its run has returned or raised.
RECURSIVE RunToEnd(_)
RunToEnd(e) ==
  IF e.pc \in {"broker", "strategy", "extract"} THEN RunToEnd(StepOf(e)) ELSE e

\* A new engine that makes the one call run(s, data=d, strategy_params=p).
RunAlone(capital, rate, s, p, d) == RunToEnd(RunOf(NewEngine(capital, rate), s, p, d))

\* The first call of run() on the engine.
FirstRun ==
  /\ calls = 0
  /\ \E s \in Strategies : \E p \in ParamsOf(s) : \E d \in DataFrames \cup RejectedFrames :
       Run(s, p, d)

\* A later call on the same engine, explored with the frames run() rejects.
RunAgain ==
  /\ calls > 0
  /\ \E d \in RejectedFrames : Run(strategy_class, strategy_params, d)

Next ==
  \/ FirstRun
  \/ RunAgain
  \/ BrokerNext
  \/ StrategyStep
  \/ ExtractResults

Spec == Init /\ [][Next]_vars

(***************************************************************************)
(* BaseStrategy on its own: a subclass whose next() may call buy_signal or *)
(* sell_signal on any bar, whatever the position.                          *)
(***************************************************************************)
AnyFrames ==
  {[columns_ok |-> TRUE, bars |-> RupeeBars(c, g)] :
     c \in SeqsUpTo(MaxAnyBars), g \in Gaps}

AnyRun ==
  /\ calls = 0
  /\ \E d \in AnyFrames : Run("BaseStrategy", <<>>, d)

AnyStep ==
  /\ strategy_class = "BaseStrategy"
  /\ \E sigs \in {<<>>, <<"BUY">>, <<"SELL">>} : StrategyStepWith(sigs)

NextAny ==
  \/ AnyRun
  \/ BrokerNext
  \/ AnyStep
  \/ ExtractResults

SpecAny == Init /\ [][NextAny]_vars

\* C1: in every state of a run, whatever the strategy and the bars, at most
\* one position (trade) is open, the position is never short, and a trade is
\* open exactly when the position's size is strictly positive.
C1_SinglePositionLongOnly ==
  /\ position.size >= 0
  /\ trades.open \in {0, 1}
  /\ (trades.open = 1) = (position.size > 0)

\* A position is open again after an earlier one was closed.
C1_Witness == position.size > 0 /\ Len(trade_log) >= 1

\* A signal call the current position makes invalid: BUY while in a
\* position, SELL while flat.
InvalidSignal(sg) ==
  \/ sg.calls = <<"BUY">> /\ sg.size # 0
  \/ sg.calls = <<"SELL">> /\ sg.size = 0

\* C2: a BUY signal made while a position is open, or a SELL signal made
\* while flat, is a no-op: no order is created, cash, position, the trade log
\* and the strategy's fields are unchanged, and the call raises no error: the
\* bar ends as a bar without any signal call ends, which is without an error
\* and with the run going on to the next bar (or to the extraction of the
\* results) whenever the initial capital is not 0, and with the analyzers'
\* ZeroDivisionError, raised on the bar's value alone, when it is 0.
C2_InvalidSignalNoOp ==
  [][(pc = "strategy" /\ pc' # "strategy" /\ InvalidSignal(signals'[Len(signals')]))
       => /\ pending' = <<>>
          /\ signals'[Len(signals')].orders = 0
          /\ cash' = cash /\ position' = position /\ trade_log' = trade_log
          /\ trades' = trades /\ strat' = strat /\ fills' = fills
          /\ error' = DrawDown_next(drawdown,
                                    getvalue(cash, position,
                                             data.bars[i + 1].Close)).error
          /\ (error' # "None") = (initial_capital = 0)
          /\ initial_capital # 0 => pc' \in {"broker", "extract"}
          /\ initial_capital = 0 => pc' = "failed" /\ error' = "ZeroDivisionError"]_vars

\* A run that ended after a BUY call found a position open and a SELL call
\* found none, neither creating an order.
C2_Witness ==
  /\ \E k \in 1..Len(signals) :
       signals[k].calls = <<"BUY">> /\ signals[k].size # 0 /\ signals[k].orders = 0
  /\ \E k \in 1..Len(signals) :
       signals[k].calls = <<"SELL">> /\ signals[k].size = 0 /\ signals[k].orders = 0
  /\ pc = "done"

\* The position as next() saw it at the bar of the signal entry sg.
PositionSeen(sg) == [Flat EXCEPT !.size = sg.size]

\* C3: at every bar and for each of the four strategies, next() makes at
\* most one signal call; it calls buy_signal whenever the BUY condition holds
\* and calls sell_signal only when the BUY condition is false and the SELL
\* condition holds; one bar never creates more than one order.
C3_BuyFirstNeverBoth ==
  (strategy_class \in Strategies /\ signals # <<>> /\ signals[Len(signals)].ready) =>
    LET k  == Len(signals)
        sg == signals[k]
        c  == Closes(data.bars)
        buy  == BuyCondition(strategy_class, c, k, strategy_params, PositionSeen(sg))
        sell == SellCondition(strategy_class, c, k, strategy_params, PositionSeen(sg))
    IN  /\ sg.calls \in {<<>>, <<"BUY">>, <<"SELL">>}
        /\ sg.orders <= 1
        /\ buy = (sg.calls = <<"BUY">>)
        /\ (~buy /\ sell) = (sg.calls = <<"SELL">>)

\* On a bar where the close is at or below the lower band and at or above the
\* upper band at once, with no position, only buy_signal was called.
C3_Witness ==
  /\ strategy_class = "BollingerBandsStrategy"
  /\ signals # <<>>
  /\ LET k == Len(signals)
     IN  /\ signals[k].ready
         /\ AtOrBelowBot(Closes(data.bars), k, strategy_params)
         /\ AtOrAboveTop(Closes(data.bars), k, strategy_params)
         /\ signals[k].size = 0
         /\ signals[k].calls = <<"BUY">>
         /\ signals[k].orders = 1

ResultKeys ==
  {"initial_capital", "final_value", "total_return", "sharpe_ratio", "max_drawdown",
   "win_rate"}

Running == pc \in {"broker", "strategy", "extract"}

\* The steps of run() once the data feed and the indicators are built.
RunStep == BrokerNext \/ StrategyStep \/ ExtractResults

\* The number of steps run() still has to take.
StepsLeft ==
  IF pc = "strategy" THEN 2 * (Len(data.bars) - i)
  ELSE IF pc \in {"broker", "extract"} THEN 2 * (Len(data.bars) - i) + 1
  ELSE 0

\* C4: every call of run() ends, in one of two ways.  Either it fails in
\* the validation of its configuration, before the first bar: the frame
\* lacks a column, has no row, or has fewer rows than the strategy's
\* indicators need.  Or it can always take its next step, every step brings
\* it strictly nearer to the end and none fails, it plays every bar exactly
\* once, reaches "done" and stores a result with initial_capital,
\* final_value, total_return, sharpe_ratio, max_drawdown and win_rate.
C4_RunTerminates ==
  /\ pc = "failed" =>
       /\ error \in {"ValueError", "IndexError"}
       /\ \/ ~data.columns_ok
          \/ data.bars = <<>>
          \/ MinPeriod(strategy_class, strategy_params) > Len(data.bars)
       /\ i = 0 /\ values = <<>> /\ signals = <<>>
  /\ Running =>
       /\ i <= Len(data.bars) /\ Len(signals) = i /\ Len(values) = i
       /\ ENABLED RunStep
       /\ ~ ENABLED (RunStep /\ ~(StepsLeft' < StepsLeft /\ pc' \in {"broker", "strategy", "extract", "done"}))
  /\ pc = "done" =>
       /\ error = "None"
       /\ i = Len(data.bars)
       /\ Len(signals) = i
       /\ StepsLeft = 0
       /\ results # <<>>
       /\ ResultKeys \subseteq DOMAIN results[1]

\* C5: when the frame lacks a required column, run() raises ValueError
\* before the first bar: no bar is played, no order is created or executed,
\* and the engine's results are what they were before the call.
C5_MissingColumnsRejected ==
  (calls > 0 /\ ~data.columns_ok) =>
    /\ pc = "failed"
    /\ error = "ValueError"
    /\ i = 0
    /\ values = <<>>
    /\ signals = <<>>
    /\ pending = <<>>
    /\ fills = <<>>
    /\ results = results_before

\* A frame without the columns was rejected by an engine that holds the
\* results of an earlier run.
C5_Witness ==
  /\ pc = "failed"
  /\ ~data.columns_ok
  /\ Len(data.bars) > 0
  /\ results # <<>>
  /\ results = results_before

\* C6: a call of run() goes past its initial state only if the bar sequence
\* is not empty, the initial capital is positive, the commission is not
\* negative and every indicator window is shorter than the number of bars;
\* otherwise it fails before any bar is played.
C6_RunsOnlyWhenValid ==
  calls > 0 =>
    LET stated == /\ Len(data.bars) > 0
                  /\ initial_capital > 0
                  /\ commission >= 0
                  /\ \A w \in IndicatorWindows(strategy_class, strategy_params) :
                       w < Len(data.bars)
    IN  /\ (Running \/ pc = "done") => stated
        /\ ~stated => (pc = "failed" /\ i = 0 /\ signals = <<>>)

BuyFills == {k \in 1..Len(fills) : fills[k].isbuy}

\* C7: a run that reaches "done" has closed every position: no position is
\* open, and every BUY fill has its closed trade in the trade log.
C7_ForceClosedAtEnd ==
  pc = "done" => (position.size = 0 /\ Cardinality(BuyFills) = Len(trade_log))

\* The equity curve cli.backtest plots after the run.
EquityCurve == equity_values(initial_capital, results[1], Len(data.bars))

\* C8: the equity curve of a run over N bars has N points, and the point of
\* bar t is the cash plus the value of the open position at the close of
\* bar t.
C8_EquityCurveMarksToMarket ==
  pc = "done" =>
    /\ Len(EquityCurve) = Len(data.bars)
    /\ \A t \in 1..Len(data.bars) : EquityPointIs(EquityCurve[t], values[t])

\* C9: every fill is on the bar whose signal created the order and at that
\* bar's close: none is on a later bar or at another price.
C9_FilledAtSignalClose ==
  \A k \in 1..Len(fills) :
    fills[k].bar = fills[k].created_bar /\ fills[k].price = fills[k].created_price

\* C10: a BUY is filled for the position-size fraction of the cash divided
\* by the fill price, and the commission of a fill is price * size * rate.
C10_BuySizedByFraction ==
  \A k \in 1..Len(fills) :
    /\ fills[k].isbuy =>
         100 * fills[k].size * fills[k].price * CommDen
           = POSITION_SIZE_PCT * fills[k].cash_before
    /\ fills[k].comm = fills[k].price * Abs(fills[k].size) * commission

\* The sum of the pnl, net of commission, of the closed trades.
RECURSIVE NetPnl(_)
NetPnl(log) == IF log = <<>> THEN 0 ELSE Head(log).pnlcomm + NetPnl(Tail(log))

\* C11: the strategy records a trade only when a position is closed, the
\* profit it books for it is (exit price - entry price) * size less the
\* commission paid, and it counts the trade as winning exactly when that
\* profit is > 0.
C11_TradeBookedAtClose ==
  /\ strat.trade_count = Len(trade_log)
  /\ strat.total_profit * CommDen = NetPnl(trade_log)
  /\ strat.winning_trades =
       Cardinality({k \in 1..Len(trade_log) : trade_log[k].pnlcomm > 0})
  /\ strat.winning_trades + strat.losing_trades = Len(trade_log)

(***************************************************************************)
(* One call of run() with any strategy, and the same call made again on    *)
(* the same engine.                                                        *)
(***************************************************************************)
RepeatFrames ==
  {[columns_ok |-> TRUE, bars |-> RupeeBars(c, g)] :
     c \in SeqsUpTo(MaxRepeatTail)
             \cup {Warm(w) \o t : w \in Prices, t \in SeqsUpTo(MaxRepeatWarmTail)},
     g \in Gaps}
    \cup {MissingColumnFrame}

RunOnce ==
  /\ calls = 0
  /\ \E s \in Strategies : \E p \in ParamsOf(s) : \E d \in RepeatFrames : Run(s, p, d)

RunSame ==
  /\ calls > 0
  /\ Run(strategy_class, strategy_params, data)

NextOnce ==
  \/ RunOnce
  \/ BrokerNext
  \/ StrategyStep
  \/ ExtractResults

SpecOnce == Init /\ [][NextOnce]_vars

NextRepeat ==
  \/ RunOnce
  \/ RunSame
  \/ BrokerNext
  \/ StrategyStep
  \/ ExtractResults

SpecRepeat == Init /\ [][NextRepeat]_vars

\* What a run leaves behind: how it ended, its signals, fills, trades and
\* values, and the results it stored when it came to an end without error.
RunFields(e) ==
  [pc |-> e.pc, error |-> e.error, signals |-> e.signals, fills |-> e.fills,
   trade_log |-> e.trade_log, values |-> e.values, cash |-> e.cash,
   position |-> e.position, trades |-> e.trades,
   results |-> IF e.pc = "done" THEN e.results ELSE <<>>]

\* C12: a run is a function of the bars, the strategy with its parameters
\* and the engine's capital and commission.  Its first state is a function
\* of those inputs, each step is a function of the state before it, a run
\* ends exactly as the same call on a new engine does (same signals, fills,
\* trades, values and results), and a call repeated on the same engine with
\* the same inputs stores the results the call before stored.
C12_Deterministic ==
  [][/\ (pc \in {"broker", "strategy", "extract"}) => Self' = StepOf(Self)
     /\ (pc \in {"idle", "done", "failed"}) =>
          Self' = RunOf(Self, strategy_class', strategy_params', data')
     /\ (pc' \in {"done", "failed"}) =>
          \E e \in {Self'} :
            /\ RunFields(e) =
                 RunFields(RunAlone(e.initial_capital, e.commission, e.strategy_class,
                                    e.strategy_params, e.data))
            /\ e.calls >= 2 => e.results = e.results_before
    ]_vars

\* The same call was made twice on one engine, traded, and stored the same
\* results both times.
C12_Witness ==
  /\ pc = "done"
  /\ calls = 2
  /\ Len(fills) >= 2
  /\ results_before # <<>>
  /\ results = results_before

\* The frame d cut after its first t bars.
Prefix(d, t) == [d EXCEPT !.bars = SubSeq(d.bars, 1, t)]

\* What next() did at bar k of the run of e: its signal calls, the position
\* it saw and the orders it created (nothing, when the run did not get there).
SeenAt(e, k) ==
  IF k <= Len(e.signals)
    THEN [calls |-> e.signals[k].calls, size |-> e.signals[k].size,
          orders |-> e.signals[k].orders]
    ELSE [calls |-> <<>>, size |-> 0, orders |-> 0]

\* C13: what a run has done up to bar t depends on bars 1..t only, whatever
\* the later bars are.  After bar t its signals, the positions they saw and
\* its cash, position and pending order are those of the run over the frame
\* cut after bar t; and a run that raised has, at every bar t of its frame,
\* the signals of the run over the frame cut after bar t.
C13_NoLookAhead ==
  /\ (pc \in {"broker", "extract", "done"} /\ i >= 1) =>
       \E cut \in {RunAlone(initial_capital, commission, strategy_class,
                            strategy_params, Prefix(data, i))} :
           /\ \A k \in 1..i : SeenAt(Self, k) = SeenAt(cut, k)
           /\ cash = cut.cash
           /\ position = cut.position
           /\ pending = cut.pending
  /\ pc = "failed" =>
       \A t \in 1..Len(data.bars) :
         \E cut \in {RunAlone(initial_capital, commission, strategy_class,
                              strategy_params, Prefix(data, t))} :
           \A k \in 1..t : SeenAt(Self, k) = SeenAt(cut, k)

(***************************************************************************)
(* Two engine instances, each making one call of run(), their steps        *)
(* interleaved in any order.                                               *)
(***************************************************************************)
TwoEngines == {<<100, 1>>, <<2, 1>>}

TwoParams == [bb_period |-> 2, bb_std |-> 2]

TwoFrames ==
  {[columns_ok |-> TRUE, bars |-> RupeeBars(c, g)] :
     c \in SeqsUpTo(MaxTwoBars), g \in Gaps}
    \cup {MissingColumnFrame}

InitTwo ==
  /\ \E e \in TwoEngines : initial_capital = e[1] /\ commission = e[2]
  /\ \E e \in TwoEngines : engine2 = NewEngine(e[1], e[2])
  /\ results = <<>>
  /\ calls = 0
  /\ results_before = <<>>
  /\ strategy_class = "None"
  /\ strategy_params = <<>>
  /\ data = EmptyFrame
  /\ pc = "idle"
  /\ error = "None"
  /\ i = 0
  /\ cash = 0
  /\ position = Flat
  /\ pending = <<>>
  /\ strat = BaseStrategy_init
  /\ trades = NoTrades
  /\ trade_log = <<>>
  /\ values = <<>>
  /\ drawdown = DrawDown_start
  /\ signals = <<>>
  /\ fills = <<>>
  /\ report = <<>>
  /\ notified = <<>>

\* The variables of the first engine.
self_vars ==
  <<initial_capital, commission, results, calls, results_before, strategy_class,
    strategy_params, data, pc, error, i, cash, position, pending, strat, trades,
    trade_log, values, drawdown, signals, fills, notified>>

\* The call of run() on the first engine.
RunFirst ==
  /\ calls = 0
  /\ \E d \in TwoFrames : Run("BollingerBandsStrategy", TwoParams, d)

\* The call of run() on the second engine.
RunSecond ==
  /\ engine2.calls = 0
  /\ \E d \in TwoFrames :
       engine2' = RunOf(engine2, "BollingerBandsStrategy", TwoParams, d)
  /\ UNCHANGED <<self_vars, report>>

\* A step of the run of the second engine.
StepSecond ==
  /\ engine2.pc \in {"broker", "strategy", "extract"}
  /\ engine2' = StepOf(engine2)
  /\ UNCHANGED <<self_vars, report>>

NextTwo ==
  \/ RunFirst
  \/ BrokerNext
  \/ StrategyStep
  \/ ExtractResults
  \/ RunSecond
  \/ StepSecond

SpecTwo == InitTwo /\ [][NextTwo]_vars

\* The stored results of e are those of its call made alone on a new engine
\* (none before the call has returned).
ResultsAsAlone(e) ==
  e.results =
    IF e.pc = "done"
      THEN RunAlone(e.initial_capital, e.commission, e.strategy_class,
                    e.strategy_params, e.data).results
      ELSE <<>>

\* C14: two engine instances share no mutable state.  However the steps of
\* their runs are interleaved, each engine stores the results its call gives
\* when made alone, and a step of one engine changes nothing of the other.
C14_EnginesIndependent ==
  [][\E e1 \in {Self'} : \E e2 \in {engine2'} :
       /\ ResultsAsAlone(e1)
       /\ ResultsAsAlone(e2)
       /\ (e1 = Self) \/ (e2 = engine2)
       /\ (e1 # Self) =>
            e1 = IF pc = "idle" THEN RunOf(Self, e1.strategy_class, e1.strategy_params,
                                           e1.data)
                 ELSE StepOf(Self)
       /\ (e2 # engine2) =>
            e2 = IF engine2.pc = "idle"
                   THEN RunOf(engine2, e2.strategy_class, e2.strategy_params, e2.data)
                   ELSE StepOf(engine2)
    ]_vars

\* Both engines have traded and stored their results, which differ.
C14_Witness ==
  /\ pc = "done"
  /\ engine2.pc = "done"
  /\ fills # <<>>
  /\ engine2.fills # <<>>
  /\ results # engine2.results

(***************************************************************************)
(* PerformanceAnalyzer.  A trade is a record with its pnl; a ratio is a    *)
(* record [num, den], +infinity is [1, 0].                                 *)
(***************************************************************************)
\* sum(pnl for the trades with pnl > 0).
RECURSIVE gross_profit(_)
gross_profit(trade_list) ==
  IF trade_list = <<>> THEN 0
  ELSE (IF Head(trade_list).pnl > 0 THEN Head(trade_list).pnl ELSE 0)
         + gross_profit(Tail(trade_list))

\* abs(sum(pnl for the trades with pnl < 0)).
RECURSIVE gross_loss(_)
gross_loss(trade_list) ==
  IF trade_list = <<>> THEN 0
  ELSE (IF Head(trade_list).pnl < 0 THEN 0 - Head(trade_list).pnl ELSE 0)
         + gross_loss(Tail(trade_list))

\* PerformanceAnalyzer.calculate_profit_factor.
calculate_profit_factor(trade_list) ==
  IF Len(trade_list) = 0 THEN Rat(0, 1)
  ELSE IF gross_loss(trade_list) = 0
    THEN (IF gross_profit(trade_list) = 0 THEN Rat(0, 1) ELSE Rat(1, 0))
  ELSE Rat(gross_profit(trade_list), gross_loss(trade_list))

\* A win rate that is full when there is no trade.
calculate_win_rate_full_when_empty(trade_list) ==
  IF Len(trade_list) = 0 THEN Rat(100, 1)
  ELSE Rat(Cardinality({k \in 1..Len(trade_list) : trade_list[k].pnl > 0}) * 100,
           Len(trade_list))

\* PerformanceAnalyzer.calculate_win_rate.
calculate_win_rate(trade_list) ==
  IF Len(trade_list) = 0 THEN Rat(0, 1)
  ELSE Rat(Cardinality({k \in 1..Len(trade_list) : trade_list[k].pnl > 0}) * 100,
           Len(trade_list))

\* The equity series is kept in units of 1/EquityDen.  A float result that
\* has a square root in it is kept by its kind: "0.0", "nan", "positive" or
\* "negative".
RISK_FREE_RATE == Rat(65, 1000)

\* a + b for ratios with positive denominators.
RatAdd(a, b) == Rat(a.num * b.den + b.num * a.den, a.den * b.den)

\* Series.pct_change().dropna(): (x[t+1] - x[t]) / x[t].
pct_change(returns) ==
  [t \in 1..(Len(returns) - 1) |-> Rat(returns[t + 1] - returns[t], returns[t])]

\* Series.sum().
RECURSIVE RatSum(_)
RatSum(xs) == IF xs = <<>> THEN Rat(0, 1) ELSE RatAdd(Head(xs), RatSum(Tail(xs)))

\* Series.std() (ddof = 1): NaN for fewer than 2 values, 0 when all values
\* are the same.
std(xs) ==
  IF Len(xs) < 2 THEN "nan"
  ELSE IF \A j, k \in 1..Len(xs) : xs[j].num * xs[k].den = xs[k].num * xs[j].den
    THEN "0.0"
  ELSE "positive"

\* The sign of daily_returns.mean() - risk_free_rate / DAYS_PER_YEAR.
excess_return(xs, risk_free_rate) ==
  LET total == RatSum(xs)
      d     == total.num * risk_free_rate.den * DAYS_PER_YEAR
                 - risk_free_rate.num * total.den * Len(xs)
  IN  IF d > 0 THEN "positive" ELSE IF d < 0 THEN "negative" ELSE "0.0"

\* excess / deviation * sqrt(DAYS_PER_YEAR) for a deviation that is not 0.
Ratio(excess, deviation) == IF deviation = "nan" THEN "nan" ELSE excess

\* daily_returns[daily_returns < 0].
RECURSIVE downside_returns(_)
downside_returns(xs) ==
  IF xs = <<>> THEN <<>>
  ELSE (IF Head(xs).num < 0 THEN <<Head(xs)>> ELSE <<>>) \o downside_returns(Tail(xs))

\* PerformanceAnalyzer.calculate_sharpe_ratio.
calculate_sharpe_ratio(returns, risk_free_rate) ==
  IF Len(returns) < 2 THEN "0.0"
  ELSE LET daily_returns == pct_change(returns)
       IN  IF Len(daily_returns) = 0 \/ std(daily_returns) = "0.0" THEN "0.0"
           ELSE Ratio(excess_return(daily_returns, risk_free_rate), std(daily_returns))

\* PerformanceAnalyzer.calculate_sortino_ratio.
calculate_sortino_ratio(returns, risk_free_rate) ==
  IF Len(returns) < 2 THEN "0.0"
  ELSE LET daily_returns == pct_change(returns)
           downside      == downside_returns(daily_returns)
       IN  IF Len(daily_returns) = 0 THEN "0.0"
           ELSE IF Len(downside) = 0 \/ std(downside) = "0.0" THEN "0.0"
           ELSE Ratio(excess_return(daily_returns, risk_free_rate), std(downside))

\* A volatility without the tests on the length of the series.
calculate_volatility_unguarded(returns) == std(pct_change(returns))

\* PerformanceAnalyzer.calculate_volatility.
calculate_volatility(returns) ==
  IF Len(returns) < 2 THEN "0.0"
  ELSE LET daily_returns == pct_change(returns)
       IN  IF Len(daily_returns) = 0 THEN "0.0" ELSE std(daily_returns)

\* PerformanceAnalyzer.calculate_best_day: daily_pct.max() * 100.
calculate_best_day(returns) ==
  IF Len(returns) < 2 THEN Rat(0, 1)
  ELSE LET daily_pct == pct_change(returns)
           best == CHOOSE t \in 1..Len(daily_pct) :
                     \A u \in 1..Len(daily_pct) : ~RatGreater(daily_pct[u], daily_pct[t])
       IN  IF Len(daily_pct) > 0 THEN Rat(daily_pct[best].num * 100, daily_pct[best].den)
           ELSE Rat(0, 1)

\* PerformanceAnalyzer.calculate_worst_day: daily_pct.min() * 100.
calculate_worst_day(returns) ==
  IF Len(returns) < 2 THEN Rat(0, 1)
  ELSE LET daily_pct == pct_change(returns)
           worst == CHOOSE t \in 1..Len(daily_pct) :
                      \A u \in 1..Len(daily_pct) : ~RatGreater(daily_pct[t], daily_pct[u])
       IN  IF Len(daily_pct) > 0 THEN Rat(daily_pct[worst].num * 100, daily_pct[worst].den)
           ELSE Rat(0, 1)

\* Series.cumprod() at t, of the series itself.
RECURSIVE cumprod(_, _)
cumprod(returns, t) ==
  IF t = 1 THEN Rat(returns[1], EquityDen)
  ELSE LET c == cumprod(returns, t - 1)
       IN  Rat(c.num * returns[t], c.den * EquityDen)

\* cumulative.expanding().max() at t.
RECURSIVE running_max(_, _)
running_max(returns, t) ==
  IF t = 1 THEN cumprod(returns, 1)
  ELSE LET m == running_max(returns, t - 1)
           c == cumprod(returns, t)
       IN  IF RatGreater(c, m) THEN c ELSE m

\* (cumulative - running_max) / running_max at t.
drawdown_at(returns, t) ==
  LET c == cumprod(returns, t)
      m == running_max(returns, t)
  IN  Rat(c.num * m.den - m.num * c.den, c.den * m.num)

\* PerformanceAnalyzer.calculate_max_drawdown: drawdown.min() * 100.
calculate_max_drawdown(returns) ==
  IF Len(returns) < 2 THEN Rat(0, 1)
  ELSE LET low == CHOOSE t \in 1..Len(returns) :
                    \A u \in 1..Len(returns) :
                      ~RatGreater(drawdown_at(returns, t), drawdown_at(returns, u))
       IN  Rat(drawdown_at(returns, low).num * 100, drawdown_at(returns, low).den)

\* PerformanceAnalyzer.calculate_total_return, in percent: the last value of
\* the series minus 1.
calculate_total_return(returns) ==
  IF Len(returns) = 0 THEN Rat(0, 1)
  ELSE Rat((returns[Len(returns)] - EquityDen) * 100, EquityDen)

\* An annual return is kept by its terms: [growth, n_years] is
\* (growth ^ (1 / n_years) - 1) * 100 for ratios growth > 0 and n_years > 0,
\* which is 0 exactly when growth = 1.  The result 0.0 is growth 1 over one
\* year.
AnnualZero == [growth |-> Rat(1, 1), n_years |-> Rat(1, 1)]

\* PerformanceAnalyzer.calculate_annual_return; days_per_year is the value
\* of the module's global DAYS_PER_YEAR when the method runs.
calculate_annual_return(returns, days_per_year) ==
  IF Len(returns) = 0 THEN AnnualZero
  ELSE LET growth  == Rat(returns[Len(returns)], EquityDen)
           n_years == Rat(Len(returns), days_per_year)
       IN  IF ~RatGreater(n_years, Rat(0, 1)) THEN AnnualZero
           ELSE [growth |-> growth, n_years |-> n_years]

\* A percentage as a fraction: x / 100.
Fraction(x) == Rat(x.num, x.den * 100)

\* abs(x) of a ratio.
RatAbs(x) == Rat(Abs(x.num), Abs(x.den))

\* PerformanceAnalyzer.calculate_calmar_ratio: [annual_return, max_dd] is
\* (annual_return / 100) / max_dd; the result 0.0 is the annual return 0
\* over 1.
calculate_calmar_ratio(returns, days_per_year) ==
  LET annual_return == calculate_annual_return(returns, days_per_year)
      max_dd        == Fraction(calculate_max_drawdown(returns))
  IN  IF max_dd.num = 0 THEN [annual_return |-> AnnualZero, max_dd |-> Rat(1, 1)]
      ELSE [annual_return |-> annual_return, max_dd |-> RatAbs(max_dd)]

\* cumulative < running_max at t.
in_drawdown(returns, t) ==
  RatGreater(running_max(returns, t), cumprod(returns, t))

\* The loop of calculate_max_drawdown_duration over the first t flags:
\* [current, longest].
RECURSIVE DurationLoop(_, _)
DurationLoop(returns, t) ==
  IF t = 0 THEN [current |-> 0, longest |-> 0]
  ELSE LET before == DurationLoop(returns, t - 1)
       IN  IF in_drawdown(returns, t)
             THEN [current |-> before.current + 1,
                   longest |-> Max(before.longest, before.current + 1)]
             ELSE [current |-> 0, longest |-> before.longest]

\* PerformanceAnalyzer.calculate_max_drawdown_duration.
calculate_max_drawdown_duration(returns) ==
  IF Len(returns) < 2 THEN 0 ELSE DurationLoop(returns, Len(returns)).longest

\* A recovery factor that divides without the test of max_dd.
calculate_recovery_factor_unguarded(returns) ==
  LET total_return == Fraction(calculate_total_return(returns))
      max_dd       == RatAbs(Fraction(calculate_max_drawdown(returns)))
  IN  Rat(total_return.num * max_dd.den, total_return.den * max_dd.num)

\* PerformanceAnalyzer.calculate_recovery_factor.
calculate_recovery_factor(returns) ==
  LET total_return == Fraction(calculate_total_return(returns))
      max_dd       == RatAbs(Fraction(calculate_max_drawdown(returns)))
  IN  IF max_dd.num = 0 THEN Rat(0, 1)
      ELSE Rat(total_return.num * max_dd.den, total_return.den * max_dd.num)

\* The closed trades of a run as the trade list of the analytics: the pnl of
\* a trade is net of its commission.
TradeList(log) == [k \in 1..Len(log) |-> [pnl |-> log[k].pnlcomm]]

\* C15: the profit factor of a finished run is +infinity exactly when the
\* gross loss of its trades is 0 and their gross profit is > 0, and it is 0
\* exactly when both are 0.
C15_ProfitFactorSentinels ==
  pc = "done" =>
    LET pf == results[1].profit_factor
        gp == gross_profit(TradeList(trade_log))
        gl == gross_loss(TradeList(trade_log))
    IN  /\ (pf = Rat(1, 0)) <=> (gl = 0 /\ gp > 0)
        /\ (pf.den # 0 /\ pf.num = 0) <=> (gp = 0 /\ gl = 0)

(***************************************************************************)
(* The PerformanceAnalyzer on its own: an analyzer is made for an equity   *)
(* series, a trade list and a risk-free rate, and its metrics are computed *)
(* in the order of calculate_all_metrics.                                  *)
(***************************************************************************)
EquityValues == {1, 2, 4}

Pnls == {0 - 1, 0, 1}

RiskFreeRates == {Rat(0, 1), RISK_FREE_RATE}

EquitySeries == UNION {[1..m -> EquityValues] : m \in 0..MaxPoints}

TradeLists == UNION {[1..m -> [pnl : Pnls]] : m \in 0..MaxTrades}

\* PerformanceAnalyzer.__init__.
PerformanceAnalyzer_init(returns, trade_list, risk_free_rate) ==
  [returns |-> returns, trades |-> trade_list, risk_free_rate |-> risk_free_rate,
   step |-> 0, metrics |-> <<>>]

InitMetrics ==
  /\ initial_capital = 100
  /\ commission = 1
  /\ engine2 = NewEngine(100, 1)
  /\ results = <<>>
  /\ calls = 0
  /\ results_before = <<>>
  /\ strategy_class = "None"
  /\ strategy_params = <<>>
  /\ data = EmptyFrame
  /\ pc = "idle"
  /\ error = "None"
  /\ i = 0
  /\ cash = 0
  /\ position = Flat
  /\ pending = <<>>
  /\ strat = BaseStrategy_init
  /\ trades = NoTrades
  /\ trade_log = <<>>
  /\ values = <<>>
  /\ drawdown = DrawDown_start
  /\ signals = <<>>
  /\ fills = <<>>
  /\ notified = <<>>
  /\ \E r \in EquitySeries : \E t \in TradeLists : \E rf \in RiskFreeRates :
       report = PerformanceAnalyzer_init(r, t, rf)

\* The metric name, the step'th of the report, is computed as value.
Metric(step, name, value) ==
  /\ report.step = step - 1
  /\ report' = [report EXCEPT !.step = step, !.metrics = @ @@ (name :> value)]
  /\ UNCHANGED <<self_vars, engine2>>

SharpeRatio ==
  /\ report # <<>>
  /\ Metric(3, "sharpe_ratio",
            calculate_sharpe_ratio(report.returns, report.risk_free_rate))

SortinoRatio ==
  /\ report # <<>>
  /\ Metric(4, "sortino_ratio",
            calculate_sortino_ratio(report.returns, report.risk_free_rate))

MaxDrawdown ==
  /\ report # <<>>
  /\ Metric(6, "max_drawdown", calculate_max_drawdown(report.returns))

WinRate ==
  /\ report # <<>>
  /\ Metric(8, "win_rate", calculate_win_rate(report.trades))

ProfitFactor ==
  /\ report # <<>>
  /\ Metric(9, "profit_factor", calculate_profit_factor(report.trades))

Volatility ==
  /\ report # <<>>
  /\ Metric(11, "volatility", calculate_volatility(report.returns))

\* The TradeAnalyzer's counters after the trades of a list were opened and
\* closed one after the other.
RECURSIVE TradeAnalyzer_of(_)
TradeAnalyzer_of(trade_list) ==
  IF trade_list = <<>> THEN NoTrades
  ELSE LET n      == Len(trade_list)
           before == TradeAnalyzer_of(SubSeq(trade_list, 1, n - 1))
           opened == TradeAnalyzer_notify(before, [closed_trades |-> <<>>,
                                                   opened_trade |-> TRUE])
       IN  TradeAnalyzer_notify(opened,
                                [closed_trades |-> <<[pnlcomm |-> trade_list[n].pnl]>>,
                                 opened_trade |-> FALSE])

\* The win rate BacktestEngine._extract_results reports for the trades of a
\* list.
engine_win_rate(trade_list) ==
  _extract_results("None", 1, 0, Flat, TradeAnalyzer_of(trade_list),
                   DrawDown_start, <<[Open |-> 1, Close |-> 1]>>).win_rate

BestDay ==
  /\ report # <<>>
  /\ Metric(12, "best_day", calculate_best_day(report.returns))

WorstDay ==
  /\ report # <<>>
  /\ Metric(13, "worst_day", calculate_worst_day(report.returns))

TotalReturn ==
  /\ report # <<>>
  /\ Metric(1, "total_return", calculate_total_return(report.returns))

AnnualReturn ==
  /\ report # <<>>
  /\ Metric(2, "annual_return",
            calculate_annual_return(report.returns, DAYS_PER_YEAR))

CalmarRatio ==
  /\ report # <<>>
  /\ Metric(5, "calmar_ratio",
            calculate_calmar_ratio(report.returns, DAYS_PER_YEAR))

DrawdownDuration ==
  /\ report # <<>>
  /\ Metric(7, "drawdown_duration",
            calculate_max_drawdown_duration(report.returns))

RecoveryFactor ==
  /\ report # <<>>
  /\ Metric(10, "recovery_factor", calculate_recovery_factor(report.returns))

NextMetrics ==
  \/ TotalReturn
  \/ AnnualReturn
  \/ SharpeRatio
  \/ SortinoRatio
  \/ CalmarRatio
  \/ MaxDrawdown
  \/ DrawdownDuration
  \/ WinRate
  \/ ProfitFactor
  \/ RecoveryFactor
  \/ Volatility
  \/ BestDay
  \/ WorstDay

SpecMetrics == InitMetrics /\ [][NextMetrics]_vars

\* Whether the metric name of the report has been computed.
Computed(name) == report # <<>> /\ name \in DOMAIN report.metrics

\* The equity series never goes down from one point to the next.
NonDecreasing(returns) ==
  \A t \in 1..(Len(returns) - 1) : returns[t] <= returns[t + 1]

\* C16: max_drawdown is <= 0 for every equity curve, and it is 0 exactly
\* when the curve is non-decreasing at every step.
C16_MaxDrawdownSign ==
  Computed("max_drawdown") =>
    LET md == report.metrics["max_drawdown"]
    IN  /\ ~RatGreater(md, Rat(0, 1))
        /\ (md.num = 0) <=> NonDecreasing(report.returns)

\* C17: no metric of the report is NaN, and only the profit factor may be
\* infinite.
C17_NoNaN ==
  report # <<>> =>
    \A name \in DOMAIN report.metrics :
      IF name \in {"sharpe_ratio", "sortino_ratio", "volatility"}
        THEN report.metrics[name] # "nan"
      ELSE IF name = "annual_return"
        THEN /\ report.metrics[name].growth.den # 0
             /\ report.metrics[name].n_years.num # 0
      ELSE IF name = "calmar_ratio"
        THEN /\ report.metrics[name].max_dd.num # 0
             /\ report.metrics[name].max_dd.den # 0
      ELSE IF name = "drawdown_duration"
        THEN report.metrics[name] \in Nat
      ELSE name # "profit_factor" => report.metrics[name].den # 0

\* C18: with fewer than 2 points in the equity curve the Sharpe ratio, the
\* Sortino ratio and the volatility are 0, whatever the trades and the
\* risk-free rate.
C18_ZeroBelowTwoPoints ==
  (report # <<>> /\ Len(report.returns) < 2) =>
    \A name \in DOMAIN report.metrics \cap {"sharpe_ratio", "sortino_ratio", "volatility"} :
      report.metrics[name] = "0.0"

\* The three metrics were computed for a curve of one point, with trades
\* and a risk-free rate that is not 0.
C18_Witness ==
  /\ report # <<>>
  /\ Len(report.returns) = 1
  /\ report.trades # <<>>
  /\ report.risk_free_rate = RISK_FREE_RATE
  /\ {"sharpe_ratio", "sortino_ratio", "volatility"} \subseteq DOMAIN report.metrics

\* A ratio lies in [0, 100].
IsPercent(x) == x.den > 0 /\ x.num >= 0 /\ x.num <= 100 * x.den

\* C19: the win rate lies in [0, 100] and is 0 for an empty trade list; so
\* does the win rate of the engine's report, which is 0 when the total
\* trade count is 0.
C19_WinRateRange ==
  /\ Computed("win_rate") =>
       /\ IsPercent(report.metrics["win_rate"])
       /\ report.trades = <<>> => report.metrics["win_rate"].num = 0
  /\ report # <<>> =>
       /\ IsPercent(engine_win_rate(report.trades))
       /\ TradeAnalyzer_of(report.trades).total = 0 =>
            engine_win_rate(report.trades).num = 0

\* The win rate was computed for a list with a trade won and a trade lost;
\* it is 50, and so is the engine's for the same trades.
C19_Witness ==
  /\ Computed("win_rate")
  /\ report.trades = <<[pnl |-> 1], [pnl |-> 0 - 1]>>
  /\ report.metrics["win_rate"] = Rat(100, 2)
  /\ engine_win_rate(report.trades) = Rat(100, 2)

(***************************************************************************)
(* The MA-Crossover strategy, with fast_ma < slow_ma, on strictly          *)
(* increasing closes.                                                      *)
(***************************************************************************)
RisingSeqs ==
  {c \in UNION {[1..m -> 1..MaxRisePrice] : m \in 0..MaxRise} :
     \A k \in 1..(Len(c) - 1) : c[k] < c[k + 1]}

RisingFrames ==
  {[columns_ok |-> TRUE, bars |-> RupeeBars(c, g)] : c \in RisingSeqs, g \in Gaps}

RunRising ==
  /\ calls = 0
  /\ \E p \in {q \in ParamsOf("MAcrossoverStrategy") : q.fast_ma < q.slow_ma} :
       \E d \in RisingFrames : Run("MAcrossoverStrategy", p, d)

NextRising ==
  \/ RunRising
  \/ BrokerNext
  \/ StrategyStep
  \/ ExtractResults

SpecRising == Init /\ [][NextRising]_vars

\* The bars at which next() made the signal call sig.
Issued(sig) ==
  {k \in 1..Len(signals) : \E j \in 1..Len(signals[k].calls) : signals[k].calls[j] = sig}

\* C20: on strictly increasing closes the MA-Crossover strategy with
\* fast_ma < slow_ma issues at most one BUY signal and no SELL signal over
\* the whole run.
C20_RisingAtMostOneBuy ==
  /\ Cardinality(Issued("BUY")) <= 1
  /\ Issued("SELL") = {}

\* A run over the longest rising series has ended, next() was called at
\* two bars or more, the fast average above the slow one at each.
C20_Witness ==
  /\ pc = "done"
  /\ Len(signals) = MaxRise
  /\ Cardinality({k \in 1..Len(signals) : signals[k].ready}) >= 2
  /\ \A k \in 1..Len(signals) :
       signals[k].ready => MADiff(Closes(data.bars), k, strategy_params) > 0

\* A Bollinger run over closes that are all the same.
ConstantBollinger ==
  /\ strategy_class = "BollingerBandsStrategy"
  /\ \A j, k \in 1..Len(data.bars) : data.bars[j].Close = data.bars[k].Close

\* C21: on a constant-price series both raw Bollinger conditions (close <=
\* lower band, close >= upper band) hold at every ready bar; next() calls
\* buy_signal at the first ready bar and at every ready bar while flat, and
\* sell_signal only at a later bar, where a position is open.
C21_ConstantSeriesBuyThenSell ==
  ConstantBollinger =>
    \A k \in 1..Len(signals) :
      signals[k].ready =>
        /\ AtOrBelowBot(Closes(data.bars), k, strategy_params)
        /\ AtOrAboveTop(Closes(data.bars), k, strategy_params)
        /\ signals[k].calls = IF signals[k].size = 0 THEN <<"BUY">> ELSE <<"SELL">>
        /\ k = strategy_params.bb_period => signals[k].calls = <<"BUY">>

\* Bar k is in the warm-up of an indicator of the run's strategy: fewer bars
\* were seen than one of its windows needs.
InWarmUp(k) ==
  \E w \in IndicatorWindows(strategy_class, strategy_params) : k < w

\* C22: a strategy calls neither buy_signal nor sell_signal, and creates no
\* order, at a bar where one of the indicators it reads is still in its
\* warm-up.
C22_HoldDuringWarmUp ==
  strategy_class \in Strategies =>
    \A k \in 1..Len(signals) :
      InWarmUp(k) => (signals[k].calls = <<>> /\ signals[k].orders = 0)

\* A run of a strategy has played a warm-up bar without a signal and has
\* issued a signal at a later bar.
C22_Witness ==
  /\ strategy_class \in Strategies
  /\ \E k \in 1..Len(signals) :
       /\ InWarmUp(k)
       /\ signals[k].calls = <<>>
       /\ \E j \in (k + 1)..Len(signals) : signals[j].calls # <<>>

(***************************************************************************)
(* The Momentum strategy on closes that rise and fall by less than, by     *)
(* exactly and by more than the half that the ROC is compared with.        *)
(***************************************************************************)
MomentumPrices == {1, 2, 3, 5}

MomentumSeqs ==
  {Warm(w) \o t : w \in MomentumPrices,
                  t \in UNION {[1..m -> MomentumPrices] : m \in 0..MaxMomentumTail}}

MomentumFrames ==
  {[columns_ok |-> TRUE, bars |-> RupeeBars(c, g)] : c \in MomentumSeqs, g \in Gaps}

RunMomentum ==
  /\ calls = 0
  /\ \E p \in ParamsOf("MomentumStrategy") :
       \E d \in MomentumFrames : Run("MomentumStrategy", p, d)

NextMomentum ==
  \/ RunMomentum
  \/ BrokerNext
  \/ StrategyStep
  \/ ExtractResults

SpecMomentum == Init /\ [][NextMomentum]_vars

\* ROC > threshold and ROC < -threshold at bar k, for the rate of change in
\* percent: ROC = (close[k] - close[k-n]) / close[k-n] * 100.
ROCPercentAbove(c, k, p) ==
  100 * p.roc_threshold_den * (c[k] - c[k - p.roc_period])
    > p.roc_threshold_num * c[k - p.roc_period]

ROCPercentBelowNeg(c, k, p) ==
  100 * p.roc_threshold_den * (c[k] - c[k - p.roc_period])
    < 0 - p.roc_threshold_num * c[k - p.roc_period]

\* The BUY and SELL conditions of the Momentum strategy at bar k, on the
\* rate of change in percent, the 20-bar SMA and the position of that bar.
MomentumBuy(k) ==
  /\ ROCPercentAbove(Closes(data.bars), k, strategy_params)
  /\ AboveSMA(Closes(data.bars), k)
  /\ signals[k].size = 0

MomentumSell(k) ==
  /\ \/ ROCPercentBelowNeg(Closes(data.bars), k, strategy_params)
     \/ BelowSMA(Closes(data.bars), k)
  /\ signals[k].size # 0

\* C28: at a bar where next() is called, the Momentum strategy issues BUY
\* exactly when ROC > threshold (the ROC in percent, the threshold 0.5),
\* close > SMA(20) and no position is open;
\* otherwise it issues SELL exactly when (ROC < -threshold or close < SMA(20))
\* and a position is open; in every other case it issues nothing, creates no
\* order and the position at the next bar is the same.
C28_MomentumSignals ==
  strategy_class = "MomentumStrategy" =>
    \A k \in 1..Len(signals) :
      signals[k].ready =>
        /\ signals[k].calls = <<"BUY">> <=> MomentumBuy(k)
        /\ signals[k].calls = <<"SELL">> <=> (~MomentumBuy(k) /\ MomentumSell(k))
        /\ (~MomentumBuy(k) /\ ~MomentumSell(k)) =>
             /\ signals[k].calls = <<>>
             /\ signals[k].orders = 0
             /\ k < Len(signals) => signals[k + 1].size = signals[k].size

\* The values the module's global DAYS_PER_YEAR can have when a method of
\* the analyzer runs: the one of config.py, or 365 set by a caller for a
\* market open every day.
ModuleDaysPerYear == {DAYS_PER_YEAR, 365}

\* C23: the metrics depend only on the arguments of the analyzer, not on the
\* module-level configuration: the annual return computed for the report's
\* arguments is the same under every module-level value of DAYS_PER_YEAR.
C23_ArgumentsOnly ==
  Computed("annual_return") =>
    \A d \in ModuleDaysPerYear :
      LET a == calculate_annual_return(report.returns, d)
          b == report.metrics["annual_return"]
      IN  /\ a.growth = b.growth
          /\ a.growth.num # a.growth.den =>
               a.n_years.num * b.n_years.den = b.n_years.num * a.n_years.den

\* The equity at t is strictly below its running maximum up to t.
EquityBelowPeak(returns, t) == \E j \in 1..(t - 1) : returns[j] > returns[t]

\* The length of the longest run of consecutive points below the running
\* maximum of the equity.
LongestRunBelowPeak(returns) ==
  LET runs == {x \in (1..Len(returns)) \X (1..Len(returns)) :
                 /\ x[1] <= x[2]
                 /\ \A t \in x[1]..x[2] : EquityBelowPeak(returns, t)}
  IN  IF runs = {} THEN 0
      ELSE LET longest == CHOOSE x \in runs :
                            \A y \in runs : y[2] - y[1] <= x[2] - x[1]
           IN  longest[2] - longest[1] + 1

\* C24: drawdown_duration is the length of the longest run of consecutive
\* bars at which the equity is strictly below its running maximum; it is 0
\* when no bar is below it and when there are fewer than 2 points.
C24_DrawdownDuration ==
  Computed("drawdown_duration") =>
    report.metrics["drawdown_duration"]
      = IF Len(report.returns) < 2 THEN 0 ELSE LongestRunBelowPeak(report.returns)

\* C25: for a non-empty equity curve, total_return is
\* (equity_last / equity_first - 1) * 100, whatever the first value is.
C25_TotalReturn ==
  (Computed("total_return") /\ report.returns # <<>>) =>
    LET first == report.returns[1]
        last  == report.returns[Len(report.returns)]
        total == report.metrics["total_return"]
    IN  total.num * first = (last - first) * 100 * total.den

\* C26: annual_return is taken over n_years = (N - 1) / trading days per
\* year for a curve of N points, and is 0 when n_years <= 0, so for a curve
\* of one point.
C26_AnnualReturnYears ==
  (Computed("annual_return") /\ report.returns # <<>>) =>
    LET N      == Len(report.returns)
        annual == report.metrics["annual_return"]
    IN  /\ N = 1 => annual.growth.num = annual.growth.den
        /\ (N > 1 /\ annual.growth.num # annual.growth.den) =>
             annual.n_years.num * DAYS_PER_YEAR = (N - 1) * annual.n_years.den

\* C27: calmar_ratio and recovery_factor are 0 when max_drawdown is 0;
\* otherwise they are annual_return / 100 and total_return / 100 over
\* |max_drawdown / 100|; the divisor is never 0.
C27_CalmarAndRecovery ==
  (Computed("calmar_ratio") /\ Computed("recovery_factor")) =>
    LET max_dd   == RatAbs(Fraction(report.metrics["max_drawdown"]))
        total    == Fraction(report.metrics["total_return"])
        calmar   == report.metrics["calmar_ratio"]
        recovery == report.metrics["recovery_factor"]
    IN  /\ calmar.max_dd.num # 0 /\ calmar.max_dd.den # 0
        /\ recovery.den # 0
        /\ max_dd.num = 0 =>
             /\ calmar.annual_return = AnnualZero
             /\ recovery.num = 0
        /\ max_dd.num # 0 =>
             /\ calmar.annual_return = report.metrics["annual_return"]
             /\ calmar.max_dd = max_dd
             /\ recovery = Rat(total.num * max_dd.den, total.den * max_dd.num)

\* Both ratios were computed for a curve whose max_drawdown is 0 and whose
\* total and annual returns are not.
C27_Witness ==
  /\ Computed("calmar_ratio")
  /\ Computed("recovery_factor")
  /\ report.metrics["max_drawdown"].num = 0
  /\ report.metrics["total_return"].num # 0
  /\ report.metrics["annual_return"] # AnnualZero
  /\ Len(report.returns) >= 2

(***************************************************************************)
(* BaseStrategy.notify_order on its own: a strategy instance receives any  *)
(* sequence of order notifications; between them its signal methods hand   *)
(* orders to the broker and the broker moves the position.                 *)
(***************************************************************************)
Terminal == {"Completed", "Canceled", "Margin", "Rejected"}

\* The notifications: an order that was executed has the price of its
\* execution, any other has executed nothing.
Notifications ==
  [status : {"Completed"}, isbuy : BOOLEAN, price : Prices, comm : {0}]
    \cup [status : {"Submitted", "Accepted", "Canceled", "Margin", "Rejected"},
          isbuy : BOOLEAN, price : {0}, comm : {0}]

InitNotify ==
  /\ Init
  /\ initial_capital = 100
  /\ commission = 1

\* The position after the broker has executed a BUY of the stake.
Held == [Flat EXCEPT !.size = Stake, !.price = 1]

\* What the strategy and the broker keep apart from the order handle, the
\* orders handed over and the position.
rest_vars ==
  <<engine_vars, results, call_vars, pc, error, i, cash, trades, trade_log, values,
    drawdown, signals, fills, other_vars>>

\* BaseStrategy.buy_signal: when flat, self.order = self.buy(), whether or
\* not a handle is held.
BuySignal ==
  /\ Len(pending) < MaxPending
  /\ buy_signal(position)
  /\ pending' = pending \o OrderOf("BUY", position, i + 1, 1)
  /\ strat' = [strat EXCEPT !.order = <<i + 1>>]
  /\ UNCHANGED <<rest_vars, position, notified>>

\* BaseStrategy.sell_signal: when in a position, self.order = self.sell().
SellSignal ==
  /\ Len(pending) < MaxPending
  /\ sell_signal(position)
  /\ pending' = pending \o OrderOf("SELL", position, i + 1, 1)
  /\ strat' = [strat EXCEPT !.order = <<i + 1>>]
  /\ UNCHANGED <<rest_vars, position, notified>>

\* The broker executes an order: the position goes from flat to the stake
\* or back.
BrokerMoves ==
  /\ position' = IF InPosition(position) THEN Flat ELSE Held
  /\ UNCHANGED <<rest_vars, pending, strat, notified>>

\* The broker notifies the strategy of an order.
Notify ==
  /\ Len(notified) < MaxNotified
  /\ \E o \in Notifications :
       /\ strat' = notify_order(strat, o)
       /\ notified' = Append(notified, o)
  /\ UNCHANGED <<rest_vars, position, pending>>

NextNotify ==
  \/ BuySignal
  \/ SellSignal
  \/ BrokerMoves
  \/ Notify

SpecNotify == InitNotify /\ [][NextNotify]_vars

\* C29: after a Completed, Canceled, Margin or Rejected notification the
\* order handle of the strategy is None; a Submitted or Accepted
\* notification leaves the handle, the buy price and the trade counters as
\* they were.
C29_HandleClearedWhenTerminal ==
  [][Len(notified') = Len(notified) + 1 =>
       LET o == notified'[Len(notified')]
       IN  /\ o.status \in Terminal => strat'.order = <<>>
           /\ o.status \in {"Submitted", "Accepted"} =>
                /\ strat'.order = strat.order
                /\ strat'.buy_price = strat.buy_price
                /\ strat'.trade_count = strat.trade_count
                /\ strat'.winning_trades = strat.winning_trades
                /\ strat'.losing_trades = strat.losing_trades
                /\ strat'.total_profit = strat.total_profit]_vars

\* A completed BUY cleared the handle and recorded its price; the order
\* placed next was Submitted and its handle is still held.
C29_Witness ==
  /\ Len(notified) >= 2
  /\ notified[Len(notified) - 1].status = "Completed"
  /\ notified[Len(notified) - 1].isbuy
  /\ notified[Len(notified)].status = "Submitted"
  /\ strat.order # <<>>
  /\ strat.buy_price # <<>>
  /\ strat.trade_count = 1

\* The completed orders among the notifications, and the SELLs among them.
CompletedOrders == {k \in 1..Len(notified) : notified[k].status = "Completed"}

CompletedSells == {k \in CompletedOrders : ~notified[k].isbuy}

\* The buy price recorded when notification k arrives: the price of the last
\* completed BUY before it, None if there is none.
RecordedBuyPrice(k) ==
  LET buys == {j \in CompletedOrders : j < k /\ notified[j].isbuy}
  IN  IF buys = {} THEN <<>>
      ELSE <<notified[CHOOSE j \in buys : \A h \in buys : h <= j].price>>

\* The completed SELLs without a recorded buy price or with a price
\* difference to it that is <= 0.
SellsWithoutProfit ==
  {k \in CompletedSells :
     \/ RecordedBuyPrice(k) = <<>>
     \/ notified[k].price - RecordedBuyPrice(k)[1] <= 0}

\* C30: after any sequence of notifications winning_trades + losing_trades
\* is the number of completed SELL orders, trade_count is the number of
\* completed orders, the completed SELLs without a recorded buy price or with
\* a price difference <= 0 are the losing ones, and no counter ever
\* decreases.
C30_CountersMatchCompletedOrders ==
  /\ [](/\ strat.winning_trades + strat.losing_trades = Cardinality(CompletedSells)
        /\ strat.trade_count = Cardinality(CompletedOrders)
        /\ strat.losing_trades = Cardinality(SellsWithoutProfit))
  /\ [][/\ strat'.trade_count >= strat.trade_count
        /\ strat'.winning_trades >= strat.winning_trades
        /\ strat'.losing_trades >= strat.losing_trades]_vars

\* A BUY at 1 was completed, then a SELL at 2, counted as winning, then a
\* SELL at 1, counted as losing.
C30_Witness ==
  /\ Len(notified) = 3
  /\ \A k \in 1..3 : notified[k].status = "Completed"
  /\ notified[1].isbuy /\ notified[1].price = 1
  /\ ~notified[2].isbuy /\ notified[2].price = 2
  /\ ~notified[3].isbuy /\ notified[3].price = 1
  /\ strat.winning_trades = 1
  /\ strat.losing_trades = 1
  /\ strat.trade_count = 3

====
